---- MODULE Spec2Model ----
(***************************************************************************)
(* Model of the table-population plugin (src/code.ts).                     *)
(*                                                                         *)
(* Strings are sequences of one-character strings, so that toLowerCase,    *)
(* String() and Object.keys are computed and not assumed.  A node of the   *)
(* scene graph is an integer id; 0 is the null reference.                  *)
(***************************************************************************)
EXTENDS Integers, Sequences, FiniteSets, TLC

VARIABLES
    doc,            \* the scene graph: node id -> [type, name, x, y, children, parent]
    selection,      \* figma.currentPage.selection: sequence of node ids
    characters,     \* text node id -> its text content
    pc,             \* position of the message handler: idle, loadFonts, done, failed
    task,           \* locals of the populate action in flight
    updatedCount,   \* the local counter of the populate loop
    notified,       \* sequence of figma.notify calls
    written,        \* history: the assignments to .characters done by the action, in order
    cellsIn,        \* input of organizeCellsIntoRows (pure-function specification)
    rowsOut,        \* its result
    fontsRequested, \* the fonts figma.loadFontAsync was called with
    pc2,            \* position of a second run of the message handler
    task2           \* its locals

vars == <<doc, selection, characters, pc, task, updatedCount, notified, written,
          cellsIn, rowsOut, fontsRequested, pc2, task2>>

-----------------------------------------------------------------------------
(* Bounds *)

MaxSel == 2         \* longest selection
MaxRecords == 2     \* longest Dataset
MaxCells == 3       \* longest cell list handed to organizeCellsIntoRows

-----------------------------------------------------------------------------
(* Strings *)

\* the letters String.prototype.toLowerCase changes (the names are ASCII)
LowerCaseOf ==
    ("A" :> "a") @@ ("B" :> "b") @@ ("C" :> "c") @@ ("D" :> "d") @@ ("E" :> "e") @@ ("F" :> "f") @@
    ("G" :> "g") @@ ("H" :> "h") @@ ("I" :> "i") @@ ("J" :> "j") @@ ("K" :> "k") @@ ("L" :> "l") @@
    ("M" :> "m") @@ ("N" :> "n") @@ ("O" :> "o") @@ ("P" :> "p") @@ ("Q" :> "q") @@ ("R" :> "r") @@
    ("S" :> "s") @@ ("T" :> "t") @@ ("U" :> "u") @@ ("V" :> "v") @@ ("W" :> "w") @@ ("X" :> "x") @@
    ("Y" :> "y") @@ ("Z" :> "z")

LowerChar(c) == IF c \in DOMAIN LowerCaseOf THEN LowerCaseOf[c] ELSE c

toLowerCase(s) == [i \in 1..Len(s) |-> LowerChar(s[i])]

Digits == <<"0","1","2","3","4","5","6","7","8","9">>

IsDigit(c) == \E i \in 1..10 : Digits[i] = c

DigitValue(c) == (CHOOSE i \in 1..10 : Digits[i] = c) - 1

RECURSIVE NatToString(_)
NatToString(n) ==
    IF n < 10 THEN <<Digits[n + 1]>>
    ELSE NatToString(n \div 10) \o <<Digits[(n % 10) + 1]>>

\* Number.prototype.toString for an integer
NumberToString(n) == IF n < 0 THEN <<"-">> \o NatToString(0 - n) ELSE NatToString(n)

RECURSIVE StringToNat(_)
StringToNat(s) ==
    IF Len(s) = 0 THEN 0
    ELSE 10 * StringToNat(SubSeq(s, 1, Len(s) - 1)) + DigitValue(s[Len(s)])

-----------------------------------------------------------------------------
(* JavaScript values of a Dataset *)

NullV == [t |-> "null", n |-> 0, s |-> <<>>, f |-> <<>>]
UndefinedV == [t |-> "undefined", n |-> 0, s |-> <<>>, f |-> <<>>]
NumV(k) == [t |-> "number", n |-> k, s |-> <<>>, f |-> <<>>]
StrV(str) == [t |-> "string", n |-> 0, s |-> str, f |-> <<>>]
\* an object: its properties as written, a sequence of [k |-> key, v |-> value]
ObjV(fields) == [t |-> "object", n |-> 0, s |-> <<>>, f |-> fields]

\* String(v)
String(v) ==
    CASE v.t = "string" -> v.s
      [] v.t = "number" -> NumberToString(v.n)
      [] v.t = "null" -> <<"n","u","l","l">>
      [] v.t = "undefined" -> <<"u","n","d","e","f","i","n","e","d">>
      [] OTHER -> <<"[","o","b","j","e","c","t"," ","O","b","j","e","c","t","]">>

-----------------------------------------------------------------------------
(* Sequences *)

\* Array.prototype.sort with a comparator (a stable sort since ES2019); cmp[a][b]
\* is the comparator's result on the elements at the indices a and b of the
\* array. Each index is inserted behind the last one that does not compare
\* greater.
InsertSorted(sorted, e, cmp) ==
    LET notGreater == {i \in 1..Len(sorted) : cmp[sorted[i]][e] <= 0}
        k == IF notGreater = {} THEN 0
             ELSE CHOOSE i \in notGreater : \A j \in notGreater : j <= i
    IN  SubSeq(sorted, 1, k) \o <<e>> \o SubSeq(sorted, k + 1, Len(sorted))

ArraySort(s, cmp) ==
    LET f[i \in 0..Len(s)] ==
            IF i = 0 THEN <<>> ELSE InsertSorted(f[i - 1], i, cmp)
    IN  [k \in 1..Len(s) |-> s[f[Len(s)][k]]]

\* concatenation of a sequence of sequences
RECURSIVE Flatten(_)
Flatten(ss) == IF Len(ss) = 0 THEN <<>> ELSE Head(ss) \o Flatten(Tail(ss))

Min(a, b) == IF a < b THEN a ELSE b

-----------------------------------------------------------------------------
(* Objects: Object.keys and property reads *)

\* a property name that is an array index ("0", "7", "12"; not "", "01", "a1")
IsArrayIndex(key) ==
    /\ Len(key) > 0
    /\ \A i \in 1..Len(key) : IsDigit(key[i])
    /\ (Len(key) > 1 => key[1] # "0")

\* own property order of an ordinary object: array indices in ascending
\* numeric order, then the other names in the order they were created
OwnKeys(fields) ==
    LET names == [i \in 1..Len(fields) |-> fields[i].k]
        idx == SelectSeq(names, IsArrayIndex)
        byValue == [a \in 1..Len(idx) |-> [b \in 1..Len(idx) |->
                       StringToNat(idx[a]) - StringToNat(idx[b])]]
    IN  ArraySort(idx, byValue)
            \o SelectSeq(names, LAMBDA k : ~IsArrayIndex(k))

\* Object.keys(v) throws a TypeError for null and undefined
KeysThrows(v) == v.t \in {"null", "undefined"}

ObjectKeys(v) ==
    CASE v.t = "object" -> OwnKeys(v.f)
      [] v.t = "string" -> [i \in 1..Len(v.s) |-> NatToString(i - 1)]
      [] OTHER -> <<>>

\* obj[key]
GetProp(v, key) ==
    CASE v.t = "object" ->
            IF \E i \in 1..Len(v.f) : v.f[i].k = key
            THEN v.f[CHOOSE i \in 1..Len(v.f) : v.f[i].k = key].v
            ELSE UndefinedV
      [] v.t = "string" ->
            IF IsArrayIndex(key) /\ StringToNat(key) < Len(v.s)
            THEN StrV(<<v.s[StringToNat(key) + 1]>>)
            ELSE IF key = <<"l","e","n","g","t","h">> THEN NumV(Len(v.s))
            ELSE UndefinedV
      [] OTHER -> UndefinedV

\* the conversion without the header row
convertObjectsTo2DArray_NoHeader(data) ==
    IF ~data.isArray \/ Len(data.items) = 0
    THEN [threw |-> FALSE, rows |-> <<>>]
    ELSE IF KeysThrows(data.items[1])
    THEN [threw |-> TRUE, rows |-> <<>>]
    ELSE LET keys == ObjectKeys(data.items[1])
             rowOf(obj) == [j \in 1..Len(keys) |-> GetProp(obj, keys[j])]
         IN  IF Len(keys) > 0 /\ \E i \in 1..Len(data.items) : KeysThrows(data.items[i])
             THEN [threw |-> TRUE, rows |-> <<>>]
             ELSE [threw |-> FALSE,
                   rows |-> [i \in 1..Len(data.items) |-> rowOf(data.items[i])]]

\* A Dataset as the message carries it: [isArray, items]
\* convertObjectsTo2DArray: [threw, rows]
convertObjectsTo2DArray(data) ==
    IF ~data.isArray \/ Len(data.items) = 0
    THEN [threw |-> FALSE, rows |-> <<>>]
    ELSE IF KeysThrows(data.items[1])
    THEN [threw |-> TRUE, rows |-> <<>>]
    ELSE LET keys == ObjectKeys(data.items[1])
             header == [j \in 1..Len(keys) |-> StrV(keys[j])]
             rowOf(obj) == [j \in 1..Len(keys) |-> GetProp(obj, keys[j])]
         IN  IF Len(keys) > 0 /\ \E i \in 1..Len(data.items) : KeysThrows(data.items[i])
             THEN [threw |-> TRUE, rows |-> <<>>]
             ELSE [threw |-> FALSE,
                   rows |-> <<header>> \o [i \in 1..Len(data.items) |-> rowOf(data.items[i])]]

-----------------------------------------------------------------------------
(* The scene graph *)

NULL == 0

\* node types that have a children property
ContainerTypes == {"PAGE", "FRAME", "GROUP", "INSTANCE", "COMPONENT"}

HasChildren(d, n) == d[n].type \in ContainerTypes

Node(type, name, x, y, children, parent) ==
    [type |-> type, name |-> name, x |-> x, y |-> y,
     children |-> children, parent |-> parent]

\* findValueLayer comparing the name without toLowerCase
RECURSIVE findValueLayer_CaseSensitive(_, _)
findValueLayer_CaseSensitive(d, node) ==
    IF d[node].name = <<"v","a","l","u","e">> /\ d[node].type = "TEXT"
    THEN node
    ELSE IF HasChildren(d, node)
    THEN LET kids == d[node].children
             found == {i \in 1..Len(kids) : findValueLayer_CaseSensitive(d, kids[i]) # NULL}
         IN  IF found = {} THEN NULL
             ELSE findValueLayer_CaseSensitive(d, kids[CHOOSE i \in found : \A j \in found : i <= j])
    ELSE NULL

\* the search giving up below a node named "value" that is no text
RECURSIVE findValueLayer_StopsAtNamedNode(_, _)
findValueLayer_StopsAtNamedNode(d, node) ==
    IF toLowerCase(d[node].name) = <<"v","a","l","u","e">>
    THEN IF d[node].type = "TEXT" THEN node ELSE NULL
    ELSE IF HasChildren(d, node)
    THEN LET kids == d[node].children
             found == {i \in 1..Len(kids) :
                          findValueLayer_StopsAtNamedNode(d, kids[i]) # NULL}
         IN  IF found = {} THEN NULL
             ELSE findValueLayer_StopsAtNamedNode(
                      d, kids[CHOOSE i \in found : \A j \in found : i <= j])
    ELSE NULL

\* Find value layers within a cell component
RECURSIVE findValueLayer(_, _)
findValueLayer(d, node) ==
    IF toLowerCase(d[node].name) = <<"v","a","l","u","e">> /\ d[node].type = "TEXT"
    THEN node
    ELSE IF HasChildren(d, node)
    THEN LET kids == d[node].children
             found == {i \in 1..Len(kids) : findValueLayer(d, kids[i]) # NULL}
         IN  IF found = {} THEN NULL
             ELSE findValueLayer(d, kids[CHOOSE i \in found : \A j \in found : i <= j])
    ELSE NULL

\* the test of the three filters of getAllCells
IsCellInstance(d, n) ==
    d[n].type = "INSTANCE" /\ toLowerCase(d[n].name) = <<"c","e","l","l">>

CellChildren(d, n) == SelectSeq(d[n].children, LAMBDA c : IsCellInstance(d, c))

\* a full recursive descent: every cell below the node, at any depth
RECURSIVE CellsOfRoot_AnyDepth(_, _)
CellsOfRoot_AnyDepth(d, node) ==
    IF IsCellInstance(d, node) THEN <<node>>
    ELSE Flatten([i \in 1..Len(d[node].children) |->
                     CellsOfRoot_AnyDepth(d, d[node].children[i])])

\* the first-level loop pushing all Cell children of the root for each Cell child
CellsOfRoot_RescansRoot(d, node) ==
    IF d[node].type = "INSTANCE"
    THEN IF toLowerCase(d[node].name) = <<"c","e","l","l">>
         THEN <<node>>
         ELSE IF HasChildren(d, node) THEN CellChildren(d, node) ELSE <<>>
    ELSE IF HasChildren(d, node)
    THEN LET kids == d[node].children
             ofChild(child) ==
                 IF IsCellInstance(d, child) THEN CellChildren(d, node)
                 ELSE IF HasChildren(d, child) THEN CellChildren(d, child) ELSE <<>>
         IN  Flatten([i \in 1..Len(kids) |-> ofChild(kids[i])])
    ELSE <<>>

\* what one selected node contributes to getAllCells
CellsOfRoot(d, node) ==
    IF d[node].type = "INSTANCE"
    THEN IF toLowerCase(d[node].name) = <<"c","e","l","l">>
         THEN <<node>>
         ELSE IF HasChildren(d, node) THEN CellChildren(d, node) ELSE <<>>
    ELSE IF HasChildren(d, node)
    THEN LET kids == d[node].children
             ofChild(child) ==
                 IF d[child].type = "INSTANCE"
                 THEN IF toLowerCase(d[child].name) = <<"c","e","l","l">>
                      THEN <<child>>
                      ELSE IF HasChildren(d, child) THEN CellChildren(d, child) ELSE <<>>
                 ELSE IF HasChildren(d, child) THEN CellChildren(d, child) ELSE <<>>
         IN  Flatten([i \in 1..Len(kids) |-> ofChild(kids[i])])
    ELSE <<>>

\* Get all cell instances from a row or direct selection
getAllCells(d, sel) == Flatten([i \in 1..Len(sel) |-> CellsOfRoot(d, sel[i])])

\* a key per cell: rowMap.set without the rowMap.has test
RowKeys_NoDedupe(d, cells) ==
    LET first == SelectSeq([i \in 1..Len(cells) |-> i],
                           LAMBDA i : d[cells[i]].parent # NULL)
    IN  [k \in 1..Len(first) |-> d[cells[first[k]]].parent]

\* the keys without the if (cell.parent) test: a missing parent is a key too
RowKeys_KeepsParentless(d, cells) ==
    LET first == SelectSeq([i \in 1..Len(cells) |-> i],
                           LAMBDA i : \A j \in 1..(i - 1) :
                                          d[cells[j]].parent # d[cells[i]].parent)
    IN  [k \in 1..Len(first) |-> d[cells[first[k]]].parent]

\* the keys of rowMap in insertion order: the parents in order of first discovery
RowKeys(d, cells) ==
    LET first == SelectSeq([i \in 1..Len(cells) |-> i],
                           LAMBDA i : /\ d[cells[i]].parent # NULL
                                      /\ \A j \in 1..(i - 1) :
                                            d[cells[j]].parent # d[cells[i]].parent)
    IN  [k \in 1..Len(first) |-> d[cells[first[k]]].parent]

\* the cell comparator on y instead of x
CompareX_ByY(d, a, b) == d[a].y - d[b].y

\* cells.sort((a, b) => a.x - b.x)
CompareX(d, a, b) == d[a].x - d[b].x

\* the row comparator with its operands exchanged
CompareRows_Descending(d, rowA, rowB) ==
    IF Len(rowA) = 0 \/ Len(rowB) = 0 THEN 0 ELSE d[rowB[1]].y - d[rowA[1]].y

\* rows.sort by the y of the first cell of each row

CompareRows(d, rowA, rowB) ==
    IF Len(rowA) = 0 \/ Len(rowB) = 0 THEN 0 ELSE d[rowA[1]].y - d[rowB[1]].y

\* Organize cells into rows
organizeCellsIntoRows(d, cells) ==
    LET keys == RowKeys(d, cells)
        grouped == [k \in 1..Len(keys) |->
                       SelectSeq(cells, LAMBDA c : d[c].parent = keys[k])]
        byX(row) == [a \in 1..Len(row) |-> [b \in 1..Len(row) |->
                        CompareX(d, row[a], row[b])]]
        sortedRows == [k \in 1..Len(keys) |-> ArraySort(grouped[k], byX(grouped[k]))]
        byY == [a \in 1..Len(keys) |-> [b \in 1..Len(keys) |->
                   CompareRows(d, sortedRows[a], sortedRows[b])]]
    IN  ArraySort(sortedRows, byY)

\* the text nodes of a cell, for font loading
RECURSIVE findTextNodes(_, _)
findTextNodes(d, node) ==
    IF d[node].type = "TEXT" THEN <<node>>
    ELSE IF HasChildren(d, node)
    THEN Flatten([i \in 1..Len(d[node].children) |-> findTextNodes(d, d[node].children[i])])
    ELSE <<>>

-----------------------------------------------------------------------------
(* The documents the populate action is run on: one table frame with an    *)
(* INSTANCE row of three cells (stored out of x order), a FRAME row of two *)
(* cells and a GROUP row of two cells; the rows are stored out of y order. *)
(* The layout says where each cell keeps its value slot.                   *)

Page == 1
Table == 2
RowA == 3
RowB == 4
RowC == 5
Decoy == 6
Cells == 7..13
NodeIds == 1..41

\* the first of the four nodes inside cell c
Base(c) == 14 + 4 * (c - 7)

CellOf(n) == 7 + ((n - 14) \div 4)

RowOf(c) == IF c \in {7, 8, 9} THEN RowA ELSE IF c \in {10, 11} THEN RowB ELSE RowC

CellName(c) ==
    CASE c \in {7, 11} -> <<"c","e","l","l">>
      [] c \in {8, 10, 12} -> <<"C","e","l","l">>
      [] OTHER -> <<"C","E","L","L">>

CellX(c) ==
    CASE c = 7 -> 240
      [] c \in {8, 10, 13} -> 0
      [] OTHER -> 120

CellY(c) == IF c \in {7, 8, 9} THEN 0 ELSE IF c \in {10, 11} THEN 10 ELSE 5

\* shape "nested": Label, value(FRAME) > [Value, value]; the slot is Value
\* shape "top":    VALUE, value(FRAME) > [Value, value]; the slot is VALUE
\* shape "none":   Label, value(FRAME) > [val, values];  no slot
Document(layout) ==
    [n \in NodeIds |->
        CASE n = Page -> Node("PAGE", <<"P","a","g","e">>, 0, 0, <<Table>>, NULL)
          [] n = Table ->
                Node("FRAME", <<"T","a","b","l","e">>, 0, 0, <<RowA, RowB, RowC>>, Page)
          [] n = RowA -> Node("INSTANCE", <<"R","o","w">>, 0, 0, <<7, 8, 9>>, Table)
          [] n = RowB -> Node("FRAME", <<"r","o","w">>, 0, 80, <<10, Decoy, 11>>, Table)
          [] n = RowC -> Node("GROUP", <<"C","e","l","l","s">>, 0, 40, <<12, 13>>, Table)
          [] n = Decoy -> Node("FRAME", <<"c","e","l","l">>, 60, 0, <<>>, RowB)
          [] n \in Cells ->
                Node("INSTANCE", CellName(n), CellX(n), CellY(n),
                     <<Base(n), Base(n) + 1>>, RowOf(n))
          [] OTHER ->
                LET c == CellOf(n)
                    k == n - Base(c)
                IN  CASE k = 0 ->
                            Node("TEXT",
                                 IF layout[c] = "top" THEN <<"V","A","L","U","E">>
                                 ELSE <<"L","a","b","e","l">>,
                                 0, 0, <<>>, c)
                      [] k = 1 ->
                            Node("FRAME", <<"v","a","l","u","e">>, 0, 0,
                                 <<Base(c) + 2, Base(c) + 3>>, c)
                      [] k = 2 ->
                            Node("TEXT",
                                 IF layout[c] = "none" THEN <<"v","a","l">>
                                 ELSE <<"V","a","l","u","e">>,
                                 0, 0, <<>>, Base(c) + 1)
                      [] OTHER ->
                            Node("TEXT",
                                 IF layout[c] = "none" THEN <<"v","a","l","u","e","s">>
                                 ELSE <<"v","a","l","u","e">>,
                                 0, 0, <<>>, Base(c) + 1)]

Layouts ==
    { [c \in Cells |-> "nested"],
      [c \in Cells |-> IF c \in {8, 10} THEN "none" ELSE IF c = 7 THEN "top" ELSE "nested"],
      [c \in Cells |-> IF c \in {9, 11, 12} THEN "none" ELSE IF c = 10 THEN "top" ELSE "nested"],
      [c \in Cells |-> "none"] }

Documents == {Document(l) : l \in Layouts}

\* the nodes a user selects
Selectable == {Table, RowA, RowB, RowC, 7, 8, 10, Decoy}

RECURSIVE IsAncestor(_, _, _)
IsAncestor(d, a, n) ==
    /\ d[n].parent # NULL
    /\ (d[n].parent = a \/ IsAncestor(d, a, d[n].parent))

\* the sequences of at most n elements of S
RECURSIVE SeqsUpTo(_, _)
SeqsUpTo(S, n) ==
    IF n = 0 THEN {<<>>}
    ELSE LET shorter == SeqsUpTo(S, n - 1)
         IN  shorter \cup {Append(q, e) : q \in {r \in shorter : Len(r) = n - 1}, e \in S}

\* a selection holds a node at most once
DistinctSeqs(S, n) ==
    {q \in SeqsUpTo(S, n) : \A i, j \in 1..Len(q) : i < j => q[i] # q[j]}

\* the editor keeps a selection free of repeated nodes and of nodes nested
\* in other selected nodes
Selections(d) ==
    {q \in DistinctSeqs(Selectable, MaxSel) :
        \A i, j \in 1..Len(q) : ~IsAncestor(d, q[i], q[j])}

TextNodes(d) == {n \in DOMAIN d : d[n].type = "TEXT"}

\* the fonts of the characters of a text node: the first text node of a cell
\* is set in Inter, the texts inside the "value" frame of the cells of RowB in
\* Roboto, and the first text inside the "value" frame of cell 9 in two fonts
FontsOf(n) ==
    IF n = Base(9) + 2 THEN {"Inter", "Mono"}
    ELSE IF n - Base(CellOf(n)) >= 2 /\ CellOf(n) \in {10, 11} THEN {"Roboto"}
    ELSE {"Inter"}

\* node.fontName: a font, or figma.mixed when the characters differ in font
fontName(n) ==
    IF Cardinality(FontsOf(n)) = 1 THEN CHOOSE f \in FontsOf(n) : TRUE ELSE "figma.mixed"

\* Load fonts before editing text: the fonts loadFontAsync is called with
loadFonts(d, nodes) ==
    LET textNodes == SelectSeq(nodes, LAMBDA n : d[n].type = "TEXT")
    IN  {fontName(textNodes[i]) : i \in 1..Len(textNodes)} \ {"figma.mixed"}

OldText == <<"o","l","d">>

-----------------------------------------------------------------------------
(* The Datasets of the populate-table message *)

Field(key, value) == [k |-> key, v |-> value]

RecA == ObjV(<<Field(<<"A">>, StrV(<<"x">>)), Field(<<"B">>, StrV(<<"y">>)),
               Field(<<"C">>, StrV(<<"z">>))>>)
RecB == ObjV(<<Field(<<"B">>, NullV), Field(<<"A">>, NumV(15))>>)
RecC == ObjV(<<Field(<<"1","0">>, NumV(0)), Field(<<"2">>, StrV(<<"w">>)),
               Field(<<"D">>, StrV(<<>>))>>)

\* the elements of the data array: three Records and a null
Items == {RecA, RecB, RecC, NullV}

\* arrays of one element that is neither a Record nor null: [5] and ["ab"]
Scalars == {<<NumV(5)>>, <<StrV(<<"a","b">>)>>}

Datasets ==
    {[isArray |-> TRUE, items |-> q] : q \in SeqsUpTo(Items, MaxRecords) \cup Scalars}
        \cup {[isArray |-> FALSE, items |-> <<>>]}

-----------------------------------------------------------------------------
(* The populate-table action *)

\* the assignment without the null/undefined test
CellText_NoNullCheck(value) == String(value)

\* String(rowData[colIndex] !== null && rowData[colIndex] !== undefined ? rowData[colIndex] : '')
CellText(value) ==
    IF value.t # "null" /\ value.t # "undefined" THEN String(value) ELSE String(StrV(<<>>))

\* the inner loop without its colIndex < rowData.length test
LoopPositions_AllColumns(rows, dataRows) ==
    Flatten([i \in 1..Min(Len(rows), Len(dataRows)) |->
                [j \in 1..Len(rows[i]) |->
                    [cell |-> rows[i][j],
                     value |-> IF j <= Len(dataRows[i]) THEN dataRows[i][j] ELSE UndefinedV]]])

\* the (cell, value) pairs the two nested loops visit, in the order they visit them
LoopPositions(rows, dataRows) ==
    Flatten([i \in 1..Min(Len(rows), Len(dataRows)) |->
                [j \in 1..Min(Len(rows[i]), Len(dataRows[i])) |->
                    [cell |-> rows[i][j], value |-> dataRows[i][j]]]])

\* the loops with a data index that advances only when a value layer is found
LoopWrites_Shift(d, rows, dataRows) ==
    Flatten([i \in 1..Min(Len(rows), Len(dataRows)) |->
                LET hit == SelectSeq(rows[i], LAMBDA c : findValueLayer(d, c) # NULL)
                IN  [k \in 1..Min(Len(hit), Len(dataRows[i])) |->
                        [node |-> findValueLayer(d, hit[k]),
                         text |-> CellText(dataRows[i][k])]]])

\* the assignments to valueLayer.characters the loops make, in order
LoopWrites(d, rows, dataRows) ==
    LET hit == SelectSeq(LoopPositions(rows, dataRows),
                         LAMBDA p : findValueLayer(d, p.cell) # NULL)
    IN  [k \in 1..Len(hit) |->
            [node |-> findValueLayer(d, hit[k].cell), text |-> CellText(hit[k].value)]]

\* the increment placed outside the if (valueLayer) block
UpdatedCount_AllPositions(d, rows, dataRows) == Len(LoopPositions(rows, dataRows))

\* updatedCount after the loops: one increment per assignment
UpdatedCount(d, rows, dataRows) == Len(LoopWrites(d, rows, dataRows))

\* the writes applied to a table whose other value slots are emptied first
ApplyWrites_ClearsRest(chars, writes) ==
    [n \in DOMAIN chars |->
        IF \E k \in 1..Len(writes) : writes[k].node = n
        THEN (CHOOSE k \in 1..Len(writes) : writes[k].node = n /\ \A q \in (k+1)..Len(writes) : writes[q].node # n).text
        ELSE <<>>]

RECURSIVE ApplyWrites(_, _)
ApplyWrites(chars, writes) ==
    IF Len(writes) = 0 THEN chars
    ELSE ApplyWrites([chars EXCEPT ![Head(writes).node] = Head(writes).text], Tail(writes))

NoData == [isArray |-> FALSE, items |-> <<>>]

AsArray(items) == [isArray |-> TRUE, items |-> items]

NoTask ==
    [type |-> "none", data |-> NoData, headers |-> <<>>, rowCount |-> 0, columnCount |-> 0,
     allCells |-> <<>>, rows |-> <<>>, allTextNodes |-> <<>>, dataRows |-> <<>>,
     actualColumnCount |-> 0, stream |-> "low", today |-> 0, dummyData |-> <<>>,
     headerTypes |-> <<>>]

Notice(kind, count) == [kind |-> kind, count |-> count]

Init ==
    /\ doc \in Documents
    /\ selection \in Selections(doc)
    /\ characters = [n \in TextNodes(doc) |-> OldText]
    /\ pc = "idle"
    /\ task = NoTask
    /\ updatedCount = 0
    /\ notified = <<>>
    /\ written = <<>>
    /\ cellsIn = <<>>
    /\ rowsOut = <<>>
    /\ fontsRequested = {}
    /\ pc2 = "idle"
    /\ task2 = NoTask

\* the text nodes of all cells, as the forEach over allCells collects them
CollectTextNodes(d, allCells) ==
    Flatten([i \in 1..Len(allCells) |-> findTextNodes(d, allCells[i])])

\* populateTable up to its await: the two early returns, getAllCells,
\* organizeCellsIntoRows and the collection of the text nodes
PopulateTable(data) ==
    /\ pc = "idle"
    /\ \E allCells \in {getAllCells(doc, selection)} :
       \E rows \in {organizeCellsIntoRows(doc, allCells)} :
          IF Len(selection) = 0
          THEN /\ notified' = Append(notified, Notice("select", 0))
               /\ pc' = "done"
               /\ task' = [NoTask EXCEPT !.type = "populate-table", !.data = data]
               /\ UNCHANGED fontsRequested
          ELSE IF Len(allCells) = 0
          THEN /\ notified' = Append(notified, Notice("nocells", 0))
               /\ pc' = "done"
               /\ task' = [NoTask EXCEPT !.type = "populate-table", !.data = data]
               /\ UNCHANGED fontsRequested
          ELSE \E allTextNodes \in {CollectTextNodes(doc, allCells)} :
               /\ task' = [NoTask EXCEPT !.type = "populate-table",
                                         !.data = data,
                                         !.allCells = allCells,
                                         !.rows = rows,
                                         !.allTextNodes = allTextNodes]
               /\ fontsRequested' = fontsRequested \cup loadFonts(doc, allTextNodes)
               /\ pc' = "loadFonts"
               /\ UNCHANGED notified
    /\ UNCHANGED <<doc, selection, characters, updatedCount, written, cellsIn, rowsOut,
                   pc2, task2>>

\* populateTable after loadFonts has resolved: the conversion, the loops, the notification
FontsLoaded ==
    /\ pc = "loadFonts"
    /\ task.type = "populate-table"
    /\ \E conv \in {convertObjectsTo2DArray(task.data)} :
          IF conv.threw
          THEN /\ pc' = "failed"
               /\ UNCHANGED <<characters, updatedCount, written, notified>>
          ELSE \E writes \in {LoopWrites(doc, task.rows, conv.rows)} :
               \E count \in {UpdatedCount(doc, task.rows, conv.rows)} :
                  /\ characters' = ApplyWrites(characters, writes)
                  /\ written' = writes
                  /\ updatedCount' = count
                  /\ notified' = Append(notified, Notice("updated", count))
                  /\ pc' = "done"
    /\ UNCHANGED <<doc, selection, task, cellsIn, rowsOut, fontsRequested, pc2, task2>>

Next ==
    \/ \E data \in Datasets : PopulateTable(data)
    \/ FontsLoaded

Spec == Init /\ [][Next]_vars

-----------------------------------------------------------------------------
(* Math.random and the shuffle both generators use.  A result of           *)
(* Math.random is a number of hundredths, 0..99; the results of a run are  *)
(* given by a stream, a function of the place of the call in the code and  *)
(* of the iteration it is made in.                                         *)

Streams == {"low", "high", "mixed"}

\* Math.random(), in hundredths
Random(stream, site, k) ==
    CASE stream = "low" -> 0
      [] stream = "high" -> 99
      [] OTHER -> (37 * site + 61 * k + 13) % 100

\* Math.floor(Math.random() * n)
RandomInt(r, n) == (r * n) \div 100

\* the loop of shuffleArray from index i down to 1 (indices as in the code, from 0)
RECURSIVE ShuffleFrom(_, _, _, _)
ShuffleFrom(shuffled, i, stream, site) ==
    IF i <= 0 \/ i >= Len(shuffled) THEN shuffled
    ELSE LET j == RandomInt(Random(stream, site, i), i + 1)
         IN  ShuffleFrom([shuffled EXCEPT ![i + 1] = shuffled[j + 1],
                                          ![j + 1] = shuffled[i + 1]],
                         i - 1, stream, site)

\* the loop of a shuffle that copies element j to i without swapping them
RECURSIVE CopyFrom(_, _, _, _)
CopyFrom(shuffled, i, stream, site) ==
    IF i <= 0 \/ i >= Len(shuffled) THEN shuffled
    ELSE CopyFrom([shuffled EXCEPT ![i + 1] = shuffled[RandomInt(Random(stream, site, i), i + 1) + 1]], i - 1, stream, site)

shuffleArray_CopiesWithoutSwap(array, stream, site) == CopyFrom(array, Len(array) - 1, stream, site)

\* Shuffle arrays for randomization
shuffleArray(array, stream, site) == ShuffleFrom(array, Len(array) - 1, stream, site)

\* array[i % array.length], the index as in the code, from 0
At(array, i) == array[(i % Len(array)) + 1]

\* array.slice(0, end)
Slice(array, end) ==
    IF end < 0 THEN SubSeq(array, 1, Len(array) + end)
    ELSE SubSeq(array, 1, Min(end, Len(array)))

Max(a, b) == IF a > b THEN a ELSE b

-----------------------------------------------------------------------------
(* The candidate pools of populateTableWithDummyData and of                 *)
(* generateDataFromHeaders.  A character outside ASCII is written as its    *)
(* entity name and is one character of the string.                         *)

firstNames ==
    << <<"M","a","r","k">>, <<"S","a","r","a","h">>, <<"J","a","m","e","s">>,
       <<"P","r","i","y","a">>, <<"M","i","c","h","a","e","l">>, <<"E","m","m","a">>,
       <<"D","a","v","i","d">>, <<"O","l","i","v","i","a">>, <<"T","h","o","m","a","s">>,
       <<"A","i","s","h","a">>, <<"R","o","b","e","r","t">>, <<"S","o","f","i","a">>,
       <<"D","a","n","i","e","l">>, <<"M","e","i">>, <<"C","a","r","l","o","s">>,
       <<"F","a","t","i","m","a">>, <<"J","o","h","n">>, <<"Z","a","r","a">>,
       <<"A","l","e","x","a","n","d","e","r">>, <<"L","e","i","l","a">>,
       <<"W","i","l","l","i","a","m">>, <<"S","o","p","h","i","a">>, <<"L","u","i","s">>,
       <<"E","l","e","n","a">>, <<"M","o","h","a","m","m","e","d">>, <<"C","h","l","o","e">>,
       <<"H","i","r","o","s","h","i">>, <<"I","s","a","b","e","l","l","a">>, <<"R","a","j">>,
       <<"I","n","g","r","i","d">> >>

lastNames ==
    << <<"D","a","r","n","a","l","d","s">>, <<"J","o","h","n","s","o","n">>,
       <<"C","h","e","n">>, <<"P","a","t","e","l">>, <<"R","o","d","r","i","g","u","e","z">>,
       <<"W","i","l","s","o","n">>, <<"K","i","m">>, <<"M","a","r","t","i","n","e","z">>,
       <<"S","c","h","m","i","d","t">>, <<"A","h","m","e","d">>, <<"B","r","o","w","n">>,
       <<"G","a","r","c","i","a">>, <<"N","g","u","y","e","n">>, <<"S","i","n","g","h">>,
       <<"M","&uuml;","l","l","e","r">>, <<"T","a","y","l","o","r">>, <<"S","a","t","o">>,
       <<"L","o","p","e","z">>, <<"I","v","a","n","o","v">>, <<"S","i","l","v","a">>,
       <<"A","n","d","e","r","s","o","n">>, <<"K","o","w","a","l","s","k","i">>,
       <<"R","o","s","s","i">>, <<"J","e","n","s","e","n">>, <<"A","l","i">>,
       <<"W","a","n","g">>, <<"D","u","b","o","i","s">>,
       <<"H","e","r","n","a","n","d","e","z">>, <<"O","'","C","o","n","n","o","r">>,
       <<"Y","a","m","a","m","o","t","o">> >>

departments ==
    << <<"D","e","s","i","g","n">>, <<"E","n","g","i","n","e","e","r","i","n","g">>,
       <<"M","a","r","k","e","t","i","n","g">>, <<"P","r","o","d","u","c","t">>,
       <<"S","a","l","e","s">>, <<"F","i","n","a","n","c","e">>, <<"L","e","g","a","l">>,
       <<"H","u","m","a","n"," ","R","e","s","o","u","r","c","e","s">>,
       <<"C","u","s","t","o","m","e","r"," ","S","u","p","p","o","r","t">>,
       <<"O","p","e","r","a","t","i","o","n","s">>, <<"R","e","s","e","a","r","c","h">>,
       <<"D","e","v","e","l","o","p","m","e","n","t">>,
       <<"Q","u","a","l","i","t","y"," ","A","s","s","u","r","a","n","c","e">>,
       <<"B","u","s","i","n","e","s","s"," ","D","e","v","e","l","o","p","m","e","n","t">>,
       <<"I","T">> >>

teams ==
    << <<"A","l","p","h","a">>, <<"B","e","t","a">>, <<"G","a","m","m","a">>,
       <<"D","e","l","t","a">>, <<"E","p","s","i","l","o","n">>, <<"O","m","e","g","a">>,
       <<"P","h","o","e","n","i","x">>, <<"T","i","t","a","n">>, <<"N","e","x","u","s">>,
       <<"Q","u","a","n","t","u","m">>, <<"H","o","r","i","z","o","n">>, <<"A","p","e","x">>,
       <<"Z","e","n","i","t","h">>, <<"P","u","l","s","e">>, <<"F","u","s","i","o","n">> >>

\* locations of populateTableWithDummyData
dummyLocations ==
    << <<"L","o","n","d","o","n">>, <<"N","e","w"," ","Y","o","r","k">>,
       <<"S","i","n","g","a","p","o","r","e">>, <<"B","e","r","l","i","n">>,
       <<"M","a","d","r","i","d">>, <<"P","a","r","i","s">>, <<"T","o","k","y","o">>,
       <<"S","y","d","n","e","y">>, <<"T","o","r","o","n","t","o">>, <<"D","u","b","a","i">>,
       <<"A","m","s","t","e","r","d","a","m">>, <<"S","t","o","c","k","h","o","l","m">>,
       <<"H","o","n","g"," ","K","o","n","g">>, <<"M","u","m","b","a","i">>,
       <<"S","&atilde;","o"," ","P","a","u","l","o">>, <<"S","e","o","u","l">>,
       <<"M","e","x","i","c","o"," ","C","i","t","y">>,
       <<"C","a","p","e"," ","T","o","w","n">>, <<"M","i","l","a","n">>,
       <<"Z","u","r","i","c","h">> >>

accessLevels ==
    << <<"A","d","m","i","n">>, <<"E","d","i","t","o","r">>, <<"V","i","e","w","e","r">>,
       <<"O","w","n","e","r">>, <<"G","u","e","s","t">> >>

\* statuses of populateTableWithDummyData
dummyStatuses ==
    << <<"A","c","t","i","v","e">>, <<"I","n","a","c","t","i","v","e">>,
       <<"P","e","n","d","i","n","g">>, <<"S","u","s","p","e","n","d","e","d">>,
       <<"A","r","c","h","i","v","e","d">> >>

\* projects of populateTableWithDummyData
dummyProjects ==
    << <<"D","a","s","h","b","o","a","r","d"," ","R","e","d","e","s","i","g","n">>,
       <<"M","o","b","i","l","e"," ","A","p","p">>,
       <<"A","P","I"," ","I","n","t","e","g","r","a","t","i","o","n">>,
       <<"D","a","t","a"," ","M","i","g","r","a","t","i","o","n">>,
       <<"C","l","o","u","d"," ","I","n","f","r","a","s","t","r","u","c","t","u","r","e">>,
       <<"S","e","c","u","r","i","t","y"," ","A","u","d","i","t">>,
       <<"U","I"," ","C","o","m","p","o","n","e","n","t"," ","L","i","b","r","a","r","y">>,
       <<"A","n","a","l","y","t","i","c","s"," ","P","l","a","t","f","o","r","m">>,
       <<"C","u","s","t","o","m","e","r"," ","P","o","r","t","a","l">>,
       <<"A","u","t","o","m","a","t","i","o","n"," ","F","r","a","m","e","w","o","r","k">>,
       <<"B","l","o","c","k","c","h","a","i","n"," ","S","o","l","u","t","i","o","n">>,
       <<"M","a","c","h","i","n","e"," ","L","e","a","r","n","i","n","g"," ","M","o","d","e","l">>,
       <<"I","o","T"," ","P","l","a","t","f","o","r","m">>,
       <<"A","R"," ","E","x","p","e","r","i","e","n","c","e">>,
       <<"P","a","y","m","e","n","t"," ","G","a","t","e","w","a","y">> >>

\* skills of populateTableWithDummyData
dummySkills ==
    << <<"J","a","v","a","S","c","r","i","p","t">>, <<"P","y","t","h","o","n">>,
       <<"D","e","s","i","g","n"," ","S","y","s","t","e","m","s">>,
       <<"P","r","o","d","u","c","t"," ","S","t","r","a","t","e","g","y">>,
       <<"D","a","t","a"," ","A","n","a","l","y","s","i","s">>,
       <<"P","r","o","j","e","c","t"," ","M","a","n","a","g","e","m","e","n","t">>,
       <<"U","X"," ","R","e","s","e","a","r","c","h">>,
       <<"C","l","o","u","d"," ","A","r","c","h","i","t","e","c","t","u","r","e">>,
       <<"D","e","v","O","p","s">>,
       <<"M","a","c","h","i","n","e"," ","L","e","a","r","n","i","n","g">>,
       <<"B","l","o","c","k","c","h","a","i","n">>,
       <<"M","o","b","i","l","e"," ","D","e","v","e","l","o","p","m","e","n","t">>,
       <<"C","y","b","e","r","s","e","c","u","r","i","t","y">>, <<"A","I">>,
       <<"L","e","a","d","e","r","s","h","i","p">> >>

\* languages of populateTableWithDummyData
dummyLanguages ==
    << <<"E","n","g","l","i","s","h">>, <<"S","p","a","n","i","s","h">>,
       <<"M","a","n","d","a","r","i","n">>, <<"F","r","e","n","c","h">>,
       <<"G","e","r","m","a","n">>, <<"J","a","p","a","n","e","s","e">>,
       <<"R","u","s","s","i","a","n">>, <<"A","r","a","b","i","c">>,
       <<"P","o","r","t","u","g","u","e","s","e">>, <<"H","i","n","d","i">>,
       <<"K","o","r","e","a","n">>, <<"I","t","a","l","i","a","n">>, <<"D","u","t","c","h">>,
       <<"S","w","e","d","i","s","h">>, <<"T","u","r","k","i","s","h">> >>

startDates ==
    << <<"J","a","n"," ","2","0","2","2">>, <<"M","a","r"," ","2","0","2","1">>,
       <<"S","e","p"," ","2","0","2","0">>, <<"F","e","b"," ","2","0","2","3">>,
       <<"N","o","v"," ","2","0","1","9">>, <<"A","p","r"," ","2","0","2","2">>,
       <<"J","u","l"," ","2","0","2","1">>, <<"D","e","c"," ","2","0","2","0">>,
       <<"M","a","y"," ","2","0","2","3">>, <<"A","u","g"," ","2","0","1","8">>,
       <<"O","c","t"," ","2","0","2","2">>, <<"J","u","n"," ","2","0","2","1">>,
       <<"J","a","n"," ","2","0","2","0">>, <<"M","a","r"," ","2","0","2","3">>,
       <<"S","e","p"," ","2","0","1","9">> >>

\* phoneNumbers of populateTableWithDummyData
dummyPhoneNumbers ==
    << <<"+","1"," ","(","5","5","5",")"," ","1","2","3","-","4","5","6","7">>,
       <<"+","4","4"," ","2","0"," ","7","9","4","6"," ","0","9","5","8">>,
       <<"+","6","5"," ","8","7","6","5"," ","4","3","2","1">>,
       <<"+","4","9"," ","3","0"," ","1","2","3","4"," ","5","6","7","8">>,
       <<"+","3","4"," ","9","1"," ","1","2","3"," ","4","5","6","7">>,
       <<"+","3","3"," ","1"," ","2","3"," ","4","5"," ","6","7"," ","8","9">>,
       <<"+","8","1"," ","3"," ","1","2","3","4"," ","5","6","7","8">>,
       <<"+","6","1"," ","2"," ","1","2","3","4"," ","5","6","7","8">>,
       <<"+","1"," ","(","4","1","6",")"," ","1","2","3","-","4","5","6","7">>,
       <<"+","9","7","1"," ","4"," ","1","2","3"," ","4","5","6","7">>,
       <<"+","3","1"," ","2","0"," ","1","2","3"," ","4","5","6","7">>,
       <<"+","4","6"," ","8"," ","1","2","3"," ","4","5"," ","6","7">>,
       <<"+","8","5","2"," ","1","2","3","4"," ","5","6","7","8">>,
       <<"+","9","1"," ","2","2"," ","1","2","3","4"," ","5","6","7","8">>,
       <<"+","5","5"," ","1","1"," ","1","2","3","4","-","5","6","7","8">> >>

-----------------------------------------------------------------------------
(* The Dataset populateTableWithDummyData generates *)

\* the extended fields with every threshold one column too low
ExtendedFields_FromSix(actualColumnCount, team, project, skill, language, startDate, phoneNumber) ==
    (IF actualColumnCount > 5 THEN <<Field(<<"T","e","a","m">>, StrV(team))>> ELSE <<>>)
    \o (IF actualColumnCount > 6 THEN <<Field(<<"P","r","o","j","e","c","t">>, StrV(project))>> ELSE <<>>)
    \o (IF actualColumnCount > 7 THEN <<Field(<<"S","k","i","l","l">>, StrV(skill))>> ELSE <<>>)
    \o (IF actualColumnCount > 8 THEN <<Field(<<"L","a","n","g","u","a","g","e">>, StrV(language))>> ELSE <<>>)
    \o (IF actualColumnCount > 9 THEN <<Field(<<"S","t","a","r","t"," ","D","a","t","e">>, StrV(startDate))>> ELSE <<>>)
    \o (IF actualColumnCount > 10 THEN <<Field(<<"P","h","o","n","e">>, StrV(phoneNumber))>> ELSE <<>>)

\* Add extended fields if needed
ExtendedFields(actualColumnCount, team, project, skill, language, startDate, phoneNumber) ==
    (IF actualColumnCount > 6 THEN <<Field(<<"T","e","a","m">>, StrV(team))>> ELSE <<>>)
    \o (IF actualColumnCount > 7 THEN <<Field(<<"P","r","o","j","e","c","t">>, StrV(project))>> ELSE <<>>)
    \o (IF actualColumnCount > 8 THEN <<Field(<<"S","k","i","l","l">>, StrV(skill))>> ELSE <<>>)
    \o (IF actualColumnCount > 9 THEN <<Field(<<"L","a","n","g","u","a","g","e">>, StrV(language))>> ELSE <<>>)
    \o (IF actualColumnCount > 10 THEN <<Field(<<"S","t","a","r","t"," ","D","a","t","e">>, StrV(startDate))>> ELSE <<>>)
    \o (IF actualColumnCount > 11 THEN <<Field(<<"P","h","o","n","e">>, StrV(phoneNumber))>> ELSE <<>>)

\* the Record with its Email built from the last name at index i, not i + 3
DummyRecord_EmailOfOtherLastName(i, actualColumnCount, stream, shuffled) ==
    LET firstName == At(shuffled.firstNames, i)
        lastName == At(shuffled.lastNames, i + 3)
        emailPrefix ==
            IF Random(stream, 11, i) < 20
            THEN <<toLowerCase(firstName)[1]>> \o toLowerCase(At(shuffled.lastNames, i))
            ELSE toLowerCase(firstName) \o <<".">> \o toLowerCase(At(shuffled.lastNames, i))
        email == emailPrefix \o <<"@","c","o","m","p","a","n","y",".","c","o","m">>
        department == At(shuffled.departments, i)
        location == At(shuffled.locations, i + RandomInt(Random(stream, 12, i), 3))
        accessLevel == accessLevels[RandomInt(Random(stream, 13, i), Len(accessLevels)) + 1]
        status ==
            IF Random(stream, 14, i) < 70 THEN <<"A","c","t","i","v","e">>
            ELSE dummyStatuses[RandomInt(Random(stream, 15, i), Len(dummyStatuses)) + 1]
        team == At(shuffled.teams, i)
        project == At(shuffled.projects, i + 2)
        skill == At(shuffled.skills, i + 4)
        language == At(shuffled.languages, i + 1)
        startDate == At(shuffled.startDates, i + 5)
        phoneNumber == At(shuffled.phoneNumbers, i + 3)
    IN  ObjV(<< Field(<<"N","a","m","e">>, StrV(firstName \o <<" ">> \o lastName)),
                Field(<<"D","e","p","a","r","t","m","e","n","t">>, StrV(department)),
                Field(<<"E","m","a","i","l">>, StrV(email)),
                Field(<<"L","o","c","a","t","i","o","n">>, StrV(location)),
                Field(<<"A","c","c","e","s","s"," ","L","e","v","e","l">>, StrV(accessLevel)),
                Field(<<"S","t","a","t","u","s">>, StrV(status)) >>
             \o ExtendedFields(actualColumnCount, team, project, skill, language, startDate,
                               phoneNumber))

\* the Record of iteration i of the loop over Math.max(rowCount, 30)
DummyRecord(i, actualColumnCount, stream, shuffled) ==
    LET firstName == At(shuffled.firstNames, i)
        lastName == At(shuffled.lastNames, i + 3)
        emailPrefix ==
            IF Random(stream, 11, i) < 20
            THEN <<toLowerCase(firstName)[1]>> \o toLowerCase(lastName)
            ELSE toLowerCase(firstName) \o <<".">> \o toLowerCase(lastName)
        email == emailPrefix \o <<"@","c","o","m","p","a","n","y",".","c","o","m">>
        department == At(shuffled.departments, i)
        location == At(shuffled.locations, i + RandomInt(Random(stream, 12, i), 3))
        accessLevel == accessLevels[RandomInt(Random(stream, 13, i), Len(accessLevels)) + 1]
        status ==
            IF Random(stream, 14, i) < 70 THEN <<"A","c","t","i","v","e">>
            ELSE dummyStatuses[RandomInt(Random(stream, 15, i), Len(dummyStatuses)) + 1]
        team == At(shuffled.teams, i)
        project == At(shuffled.projects, i + 2)
        skill == At(shuffled.skills, i + 4)
        language == At(shuffled.languages, i + 1)
        startDate == At(shuffled.startDates, i + 5)
        phoneNumber == At(shuffled.phoneNumbers, i + 3)
    IN  ObjV(<< Field(<<"N","a","m","e">>, StrV(firstName \o <<" ">> \o lastName)),
                Field(<<"D","e","p","a","r","t","m","e","n","t">>, StrV(department)),
                Field(<<"E","m","a","i","l">>, StrV(email)),
                Field(<<"L","o","c","a","t","i","o","n">>, StrV(location)),
                Field(<<"A","c","c","e","s","s"," ","L","e","v","e","l">>, StrV(accessLevel)),
                Field(<<"S","t","a","t","u","s">>, StrV(status)) >>
             \o ExtendedFields(actualColumnCount, team, project, skill, language, startDate,
                               phoneNumber))

\* the ten shuffled pools
ShuffledPools(stream) ==
    [firstNames |-> shuffleArray(firstNames, stream, 1),
     lastNames |-> shuffleArray(lastNames, stream, 2),
     departments |-> shuffleArray(departments, stream, 3),
     locations |-> shuffleArray(dummyLocations, stream, 4),
     teams |-> shuffleArray(teams, stream, 5),
     projects |-> shuffleArray(dummyProjects, stream, 6),
     skills |-> shuffleArray(dummySkills, stream, 7),
     languages |-> shuffleArray(dummyLanguages, stream, 8),
     startDates |-> shuffleArray(startDates, stream, 9),
     phoneNumbers |-> shuffleArray(dummyPhoneNumbers, stream, 10)]

\* the number of Records the loop creates: Math.max(rowCount, 30)
PoolRecords == 30

\* the loop running to rowCount instead of Math.max(rowCount, 30)
dummyData_NoMinimum(rowCount, actualColumnCount, stream) ==
    LET shuffled == ShuffledPools(stream)
    IN  [i \in 1..rowCount |-> DummyRecord(i - 1, actualColumnCount, stream, shuffled)]

\* Create dummy data objects
dummyData(rowCount, actualColumnCount, stream) ==
    LET shuffled == ShuffledPools(stream)
    IN  [i \in 1..Max(rowCount, PoolRecords) |->
            DummyRecord(i - 1, actualColumnCount, stream, shuffled)]

\* the final shuffle without the slice to rowCount Records
shuffledData_NoSlice(built, rowCount, stream) == shuffleArray(built, stream, 16)

\* Shuffle the final data array for extra randomness
shuffledData(built, rowCount, stream) == Slice(shuffleArray(built, stream, 16), rowCount)

-----------------------------------------------------------------------------
(* String operations the generators use *)

\* s.includes(sub)
Includes(s, sub) ==
    \E i \in 0..(Len(s) - Len(sub)) : SubSeq(s, i + 1, i + Len(sub)) = sub

\* s.startsWith(prefix)
StartsWith(s, prefix) == Len(s) >= Len(prefix) /\ SubSeq(s, 1, Len(prefix)) = prefix

\* s.trim(), the white space being the blank
trim(s) ==
    LET inked == {i \in 1..Len(s) : s[i] # " "}
    IN  IF inked = {} THEN <<>>
        ELSE SubSeq(s, CHOOSE i \in inked : \A j \in inked : i <= j,
                       CHOOSE i \in inked : \A j \in inked : j <= i)

\* s.slice(-n)
LastChars(s, n) == SubSeq(s, Max(1, Len(s) - n + 1), Len(s))

\* s.replace(/[^a-z0-9]/g, '')
KeepLowerAlphanumeric(s) ==
    SelectSeq(s, LAMBDA c : IsDigit(c) \/ \E u \in DOMAIN LowerCaseOf : LowerCaseOf[u] = c)

\* n.toLocaleString() of a whole number below a million, in the en-US locale
toLocaleString(n) ==
    IF n < 1000 THEN NatToString(n)
    ELSE NatToString(n \div 1000) \o <<",">> \o LastChars(<<"0","0","0">> \o NatToString(n % 1000), 3)

\* (r * 1000).toFixed(2) for a Math.random result r given in hundredths
toFixed2(r) == NatToString(r * 10) \o <<".","0","0">>

\* the civil date of a day counted from 1970-01-01, as [y, m, d]
CivilFromDays(days) ==
    LET z == days + 719468
        era == z \div 146097
        doe == z - era * 146097
        yoe == (doe - doe \div 1460 + doe \div 36524 - doe \div 146096) \div 365
        doy == doe - (365 * yoe + yoe \div 4 - yoe \div 100)
        mp == (5 * doy + 2) \div 153
        m == IF mp < 10 THEN mp + 3 ELSE mp - 9
    IN  [y |-> yoe + era * 400 + (IF m <= 2 THEN 1 ELSE 0),
         m |-> m,
         d |-> doy - (153 * mp + 2) \div 5 + 1]

\* date.toISOString().split('T')[0]
IsoDate(days) ==
    LET c == CivilFromDays(days)
    IN  NatToString(c.y) \o <<"-">> \o LastChars(<<"0">> \o NatToString(c.m), 2)
            \o <<"-">> \o LastChars(<<"0">> \o NatToString(c.d), 2)

\* new Date(): the day the action runs on, 2025-12-20 or 2024-02-20
Todays == {20442, 19773}

-----------------------------------------------------------------------------
(* The candidate pools of generateDataFromHeaders that differ from those of *)
(* populateTableWithDummyData or exist only there                           *)

locations ==
    << <<"L","o","n","d","o","n">>, <<"N","e","w"," ","Y","o","r","k">>,
       <<"S","i","n","g","a","p","o","r","e">>, <<"B","e","r","l","i","n">>,
       <<"M","a","d","r","i","d">>, <<"P","a","r","i","s">>, <<"T","o","k","y","o">>,
       <<"S","y","d","n","e","y">>, <<"T","o","r","o","n","t","o">>, <<"D","u","b","a","i">>,
       <<"A","m","s","t","e","r","d","a","m">>, <<"S","t","o","c","k","h","o","l","m">>,
       <<"H","o","n","g"," ","K","o","n","g">>, <<"M","u","m","b","a","i">>,
       <<"S","&atilde;","o"," ","P","a","u","l","o">> >>

roles ==
    << <<"M","a","n","a","g","e","r">>, <<"D","i","r","e","c","t","o","r">>,
       <<"A","s","s","o","c","i","a","t","e">>, <<"S","p","e","c","i","a","l","i","s","t">>,
       <<"L","e","a","d">>, <<"C","o","o","r","d","i","n","a","t","o","r">>,
       <<"A","n","a","l","y","s","t">>, <<"D","e","s","i","g","n","e","r">>,
       <<"D","e","v","e","l","o","p","e","r">>, <<"C","o","n","s","u","l","t","a","n","t">>,
       <<"A","d","m","i","n","i","s","t","r","a","t","o","r">>,
       <<"S","t","r","a","t","e","g","i","s","t">>, <<"E","n","g","i","n","e","e","r">>,
       <<"A","r","c","h","i","t","e","c","t">>, <<"E","x","e","c","u","t","i","v","e">> >>

projects ==
    << <<"D","a","s","h","b","o","a","r","d"," ","R","e","d","e","s","i","g","n">>,
       <<"M","o","b","i","l","e"," ","A","p","p">>,
       <<"A","P","I"," ","I","n","t","e","g","r","a","t","i","o","n">>,
       <<"D","a","t","a"," ","M","i","g","r","a","t","i","o","n">>,
       <<"C","l","o","u","d"," ","I","n","f","r","a","s","t","r","u","c","t","u","r","e">>,
       <<"S","e","c","u","r","i","t","y"," ","A","u","d","i","t">>,
       <<"U","I"," ","C","o","m","p","o","n","e","n","t"," ","L","i","b","r","a","r","y">>,
       <<"A","n","a","l","y","t","i","c","s"," ","P","l","a","t","f","o","r","m">>,
       <<"C","u","s","t","o","m","e","r"," ","P","o","r","t","a","l">>,
       <<"A","u","t","o","m","a","t","i","o","n"," ","F","r","a","m","e","w","o","r","k">> >>

skills ==
    << <<"J","a","v","a","S","c","r","i","p","t">>, <<"P","y","t","h","o","n">>,
       <<"D","e","s","i","g","n"," ","S","y","s","t","e","m","s">>,
       <<"P","r","o","d","u","c","t"," ","S","t","r","a","t","e","g","y">>,
       <<"D","a","t","a"," ","A","n","a","l","y","s","i","s">>,
       <<"P","r","o","j","e","c","t"," ","M","a","n","a","g","e","m","e","n","t">>,
       <<"U","X"," ","R","e","s","e","a","r","c","h">>,
       <<"C","l","o","u","d"," ","A","r","c","h","i","t","e","c","t","u","r","e">>,
       <<"D","e","v","O","p","s">>,
       <<"M","a","c","h","i","n","e"," ","L","e","a","r","n","i","n","g">> >>

languages ==
    << <<"E","n","g","l","i","s","h">>, <<"S","p","a","n","i","s","h">>,
       <<"M","a","n","d","a","r","i","n">>, <<"F","r","e","n","c","h">>,
       <<"G","e","r","m","a","n">>, <<"J","a","p","a","n","e","s","e">>,
       <<"R","u","s","s","i","a","n">>, <<"A","r","a","b","i","c">>,
       <<"P","o","r","t","u","g","u","e","s","e">>, <<"H","i","n","d","i">> >>

statuses ==
    << <<"A","c","t","i","v","e">>, <<"I","n","a","c","t","i","v","e">>,
       <<"P","e","n","d","i","n","g">>, <<"S","u","s","p","e","n","d","e","d">>,
       <<"A","r","c","h","i","v","e","d">>, <<"C","o","m","p","l","e","t","e","d">>,
       <<"I","n"," ","P","r","o","g","r","e","s","s">>, <<"O","n"," ","H","o","l","d">> >>

companies ==
    << <<"A","c","m","e"," ","I","n","c",".">>,
       <<"G","l","o","b","e","x"," ","C","o","r","p">>, <<"I","n","i","t","e","c","h">>,
       <<"U","m","b","r","e","l","l","a"," ","C","o","r","p">>,
       <<"S","t","a","r","k"," ","I","n","d","u","s","t","r","i","e","s">>,
       <<"W","a","y","n","e"," ","E","n","t","e","r","p","r","i","s","e","s">>,
       <<"C","y","b","e","r","d","y","n","e"," ","S","y","s","t","e","m","s">>,
       <<"S","o","y","l","e","n","t"," ","C","o","r","p">>,
       <<"M","a","s","s","i","v","e"," ","D","y","n","a","m","i","c">>,
       <<"H","o","o","l","i">> >>

addresses ==
    << <<"1","2","3"," ","M","a","i","n"," ","S","t">>,
       <<"4","5","6"," ","P","a","r","k"," ","A","v","e">>,
       <<"7","8","9"," ","B","r","o","a","d","w","a","y">>,
       <<"3","2","1"," ","O","a","k"," ","L","a","n","e">>,
       <<"6","5","4"," ","P","i","n","e"," ","R","o","a","d">>,
       <<"9","8","7"," ","M","a","p","l","e"," ","D","r","i","v","e">>,
       <<"7","4","1"," ","C","e","d","a","r"," ","B","l","v","d">>,
       <<"8","5","2"," ","E","l","m"," ","S","t","r","e","e","t">>,
       <<"9","6","3"," ","W","i","l","l","o","w"," ","W","a","y">>,
       <<"1","5","9"," ","B","i","r","c","h"," ","C","o","u","r","t">> >>

cities ==
    << <<"N","e","w"," ","Y","o","r","k">>, <<"L","o","n","d","o","n">>,
       <<"T","o","k","y","o">>, <<"P","a","r","i","s">>, <<"B","e","r","l","i","n">>,
       <<"S","y","d","n","e","y">>, <<"T","o","r","o","n","t","o">>,
       <<"S","i","n","g","a","p","o","r","e">>, <<"D","u","b","a","i">>,
       <<"M","u","m","b","a","i">> >>

phoneNumbers ==
    << <<"+","1"," ","(","5","5","5",")"," ","1","2","3","-","4","5","6","7">>,
       <<"+","4","4"," ","2","0"," ","7","9","4","6"," ","0","9","5","8">>,
       <<"+","6","5"," ","8","7","6","5"," ","4","3","2","1">>,
       <<"+","4","9"," ","3","0"," ","1","2","3","4"," ","5","6","7","8">>,
       <<"+","3","4"," ","9","1"," ","1","2","3"," ","4","5","6","7">>,
       <<"+","3","3"," ","1"," ","2","3"," ","4","5"," ","6","7"," ","8","9">>,
       <<"+","8","1"," ","3"," ","1","2","3","4"," ","5","6","7","8">>,
       <<"+","6","1"," ","2"," ","1","2","3","4"," ","5","6","7","8">>,
       <<"+","1"," ","(","4","1","6",")"," ","1","2","3","-","4","5","6","7">>,
       <<"+","9","7","1"," ","4"," ","1","2","3"," ","4","5","6","7">> >>

dates ==
    << <<"2","0","2","3","-","0","1","-","1","5">>,
       <<"2","0","2","3","-","0","2","-","2","8">>,
       <<"2","0","2","3","-","0","3","-","1","0">>,
       <<"2","0","2","3","-","0","4","-","2","2">>,
       <<"2","0","2","3","-","0","5","-","0","5">>,
       <<"2","0","2","3","-","0","6","-","1","8">>,
       <<"2","0","2","3","-","0","7","-","3","0">>,
       <<"2","0","2","3","-","0","8","-","1","2">>,
       <<"2","0","2","3","-","0","9","-","2","5">>,
       <<"2","0","2","3","-","1","0","-","0","8">>,
       <<"2","0","2","3","-","1","1","-","2","0">>,
       <<"2","0","2","3","-","1","2","-","0","3">>,
       <<"2","0","2","4","-","0","1","-","1","6">>,
       <<"2","0","2","4","-","0","2","-","2","9">>,
       <<"2","0","2","4","-","0","3","-","1","1">> >>

prices ==
    << <<"$","1","9",".","9","9">>, <<"$","2","4",".","5","0">>, <<"$","9","9",".","0","0">>,
       <<"$","1","4","9",".","9","9">>, <<"$","7",".","9","9">>, <<"$","3","5",".","7","5">>,
       <<"$","1","9","9",".","9","9">>, <<"$","4","9",".","0","0">>,
       <<"$","2","9","9",".","9","9">>, <<"$","1","2",".","5","0">>,
       <<"$","5","9",".","9","9">>, <<"$","8","5",".","2","5">>,
       <<"$","1","2","9",".","0","0">>, <<"$","1","4",".","9","9">>,
       <<"$","2","4","9",".","9","9">> >>

quantities ==
    << <<"1">>, <<"2">>, <<"5">>, <<"1","0">>, <<"2","5">>, <<"5","0">>, <<"1","0","0">>,
       <<"2","5","0">>, <<"5","0","0">>, <<"1","0","0","0">> >>

ratings ==
    << <<"&#9733;","&#9733;","&#9733;","&#9733;","&#9733;">>,
       <<"&#9733;","&#9733;","&#9733;","&#9733;","&#9734;">>,
       <<"&#9733;","&#9733;","&#9733;","&#9734;","&#9734;">>,
       <<"&#9733;","&#9733;","&#9734;","&#9734;","&#9734;">>,
       <<"&#9733;","&#9734;","&#9734;","&#9734;","&#9734;">> >>

\* ids: ID-0001 to ID-0100
ids == [i \in 1..100 |-> <<"I","D","-">> \o LastChars(<<"0","0","0","0">> \o NatToString(i), 4)]

\* the pool of the case 'state'
states ==
    << <<"C","a","l","i","f","o","r","n","i","a">>, <<"N","e","w"," ","Y","o","r","k">>,
       <<"T","e","x","a","s">>, <<"F","l","o","r","i","d","a">>,
       <<"I","l","l","i","n","o","i","s">>,
       <<"P","e","n","n","s","y","l","v","a","n","i","a">>, <<"O","h","i","o">>,
       <<"G","e","o","r","g","i","a">>, <<"M","i","c","h","i","g","a","n">>,
       <<"N","o","r","t","h"," ","C","a","r","o","l","i","n","a">> >>

\* the pool of the case 'country'
countries ==
    << <<"U","n","i","t","e","d"," ","S","t","a","t","e","s">>,
       <<"U","n","i","t","e","d"," ","K","i","n","g","d","o","m">>,
       <<"C","a","n","a","d","a">>, <<"A","u","s","t","r","a","l","i","a">>,
       <<"G","e","r","m","a","n","y">>, <<"F","r","a","n","c","e">>, <<"J","a","p","a","n">>,
       <<"I","n","d","i","a">>, <<"B","r","a","z","i","l">>, <<"C","h","i","n","a">> >>

\* the pool of the case 'description'
descriptions ==
    << <<"A"," ","c","o","m","p","r","e","h","e","n","s","i","v","e"," ","s","o","l","u","t","i","o","n"," ","f","o","r"," ","e","n","t","e","r","p","r","i","s","e"," ","n","e","e","d","s",".">>,
       <<"D","e","s","i","g","n","e","d"," ","w","i","t","h"," ","u","s","e","r"," ","e","x","p","e","r","i","e","n","c","e"," ","i","n"," ","m","i","n","d",".">>,
       <<"O","p","t","i","m","i","z","e","d"," ","f","o","r"," ","p","e","r","f","o","r","m","a","n","c","e"," ","a","n","d"," ","s","c","a","l","a","b","i","l","i","t","y",".">>,
       <<"I","n","n","o","v","a","t","i","v","e"," ","a","p","p","r","o","a","c","h"," ","t","o"," ","s","o","l","v","i","n","g"," ","c","o","m","p","l","e","x"," ","p","r","o","b","l","e","m","s",".">>,
       <<"I","n","d","u","s","t","r","y","-","l","e","a","d","i","n","g"," ","f","e","a","t","u","r","e","s"," ","a","n","d"," ","c","a","p","a","b","i","l","i","t","i","e","s",".">>,
       <<"B","u","i","l","t"," ","o","n"," ","c","u","t","t","i","n","g","-","e","d","g","e"," ","t","e","c","h","n","o","l","o","g","y",".">>,
       <<"T","a","i","l","o","r","e","d"," ","f","o","r"," ","m","a","x","i","m","u","m"," ","e","f","f","i","c","i","e","n","c","y",".">>,
       <<"S","e","a","m","l","e","s","s"," ","i","n","t","e","g","r","a","t","i","o","n"," ","w","i","t","h"," ","e","x","i","s","t","i","n","g"," ","s","y","s","t","e","m","s",".">>,
       <<"R","e","v","o","l","u","t","i","o","n","a","r","y"," ","d","e","s","i","g","n"," ","t","h","a","t"," ","s","e","t","s"," ","n","e","w"," ","s","t","a","n","d","a","r","d","s",".">>,
       <<"E","n","g","i","n","e","e","r","e","d"," ","f","o","r"," ","r","e","l","i","a","b","i","l","i","t","y"," ","a","n","d"," ","d","u","r","a","b","i","l","i","t","y",".">> >>

\* the pool of the case 'comment'
comments ==
    << <<"L","o","o","k","s"," ","g","r","e","a","t",","," ","a","p","p","r","o","v","e","d","!">>,
       <<"N","e","e","d"," ","s","o","m","e"," ","m","i","n","o","r"," ","a","d","j","u","s","t","m","e","n","t","s",".">>,
       <<"E","x","c","e","l","l","e","n","t"," ","w","o","r","k"," ","o","n"," ","t","h","i","s",".">>,
       <<"L","e","t","'","s"," ","d","i","s","c","u","s","s"," ","t","h","i","s"," ","f","u","r","t","h","e","r",".">>,
       <<"I"," ","h","a","v","e"," ","s","o","m","e"," ","c","o","n","c","e","r","n","s"," ","a","b","o","u","t"," ","t","h","i","s",".">>,
       <<"V","e","r","y"," ","i","m","p","r","e","s","s","i","v","e"," ","r","e","s","u","l","t","s",".">>,
       <<"T","h","i","s"," ","e","x","c","e","e","d","s"," ","e","x","p","e","c","t","a","t","i","o","n","s",".">>,
       <<"P","l","e","a","s","e"," ","r","e","v","i","e","w"," ","a","n","d"," ","g","e","t"," ","b","a","c","k"," ","t","o"," ","m","e",".">>,
       <<"I","'","d"," ","l","i","k","e"," ","t","o"," ","s","e","e"," ","a","l","t","e","r","n","a","t","i","v","e"," ","o","p","t","i","o","n","s",".">>,
       <<"T","h","i","s"," ","i","s"," ","e","x","a","c","t","l","y"," ","w","h","a","t"," ","w","e"," ","n","e","e","d","e","d",".">> >>

-----------------------------------------------------------------------------
(* generateDataFromHeaders *)

\* the ordered rules of getDataTypeForHeader on the lower-cased, trimmed header
HeaderRules(headerLower, header) ==
    LET has(sub) == Includes(headerLower, sub)
    IN
        \* Name-related headers
        IF has(<<"f","i","r","s","t">>) /\ (has(<<"n","a","m","e">>) \/ headerLower = <<"f","i","r","s","t">>)
            THEN <<"f","i","r","s","t","N","a","m","e">>
        ELSE IF has(<<"l","a","s","t">>) /\ (has(<<"n","a","m","e">>) \/ headerLower = <<"l","a","s","t">>)
            THEN <<"l","a","s","t","N","a","m","e">>
        ELSE IF headerLower = <<"n","a","m","e">> \/ headerLower = <<"f","u","l","l"," ","n","a","m","e">>
                \/ (has(<<"f","u","l","l">>) /\ has(<<"n","a","m","e">>))
            THEN <<"f","u","l","l","N","a","m","e">>
        \* Contact information
        ELSE IF has(<<"e","m","a","i","l">>) \/ has(<<"e","-","m","a","i","l">>) \/ has(<<"m","a","i","l">>)
            THEN <<"e","m","a","i","l">>
        ELSE IF has(<<"p","h","o","n","e">>) \/ has(<<"m","o","b","i","l","e">>) \/ has(<<"c","e","l","l">>)
                \/ (has(<<"n","u","m","b","e","r">>) /\ ~has(<<"i","d">>))
            THEN <<"p","h","o","n","e">>
        ELSE IF has(<<"w","e","b","s","i","t","e">>) \/ has(<<"s","i","t","e">>) \/ has(<<"u","r","l">>) \/ has(<<"w","e","b">>)
                \/ has(<<"l","i","n","k">>)
            THEN <<"w","e","b","s","i","t","e">>
        \* Location-related headers
        ELSE IF has(<<"a","d","d","r","e","s","s">>) \/ has(<<"s","t","r","e","e","t">>)
            THEN <<"a","d","d","r","e","s","s">>
        ELSE IF headerLower = <<"c","i","t","y">>
            THEN <<"c","i","t","y">>
        ELSE IF headerLower = <<"s","t","a","t","e">> \/ headerLower = <<"p","r","o","v","i","n","c","e">>
            THEN <<"s","t","a","t","e">>
        ELSE IF headerLower = <<"c","o","u","n","t","r","y">>
            THEN <<"c","o","u","n","t","r","y">>
        ELSE IF has(<<"z","i","p">>) \/ has(<<"p","o","s","t","a","l">>) \/ has(<<"p","o","s","t"," ","c","o","d","e">>)
            THEN <<"z","i","p","C","o","d","e">>
        ELSE IF has(<<"l","o","c","a","t","i","o","n">>) \/ has(<<"r","e","g","i","o","n">>) \/ has(<<"a","r","e","a">>)
            THEN <<"l","o","c","a","t","i","o","n">>
        \* Organizational headers
        ELSE IF has(<<"d","e","p","a","r","t","m","e","n","t">>) \/ has(<<"d","e","p","t">>)
            THEN <<"d","e","p","a","r","t","m","e","n","t">>
        ELSE IF has(<<"r","o","l","e">>) \/ has(<<"p","o","s","i","t","i","o","n">>) \/ has(<<"t","i","t","l","e">>) \/ has(<<"j","o","b">>)
            THEN <<"r","o","l","e">>
        ELSE IF has(<<"t","e","a","m">>) \/ has(<<"g","r","o","u","p">>)
            THEN <<"t","e","a","m">>
        ELSE IF has(<<"p","r","o","j","e","c","t">>) \/ has(<<"i","n","i","t","i","a","t","i","v","e">>)
            THEN <<"p","r","o","j","e","c","t">>
        ELSE IF has(<<"c","o","m","p","a","n","y">>) \/ has(<<"o","r","g","a","n","i","z","a","t","i","o","n">>) \/ has(<<"e","m","p","l","o","y","e","r">>)
                \/ has(<<"b","u","s","i","n","e","s","s">>)
            THEN <<"c","o","m","p","a","n","y">>
        \* Skills and attributes
        ELSE IF has(<<"s","k","i","l","l">>) \/ has(<<"e","x","p","e","r","t","i","s","e">>) \/ has(<<"s","p","e","c","i","a","l","t","y">>)
                \/ has(<<"p","r","o","f","i","c","i","e","n","c","y">>)
            THEN <<"s","k","i","l","l">>
        ELSE IF has(<<"l","a","n","g","u","a","g","e">>) \/ has(<<"l","a","n","g">>)
            THEN <<"l","a","n","g","u","a","g","e">>
        \* Status and metrics
        ELSE IF headerLower = <<"s","t","a","t","u","s">> \/ (has(<<"s","t","a","t","e">>) /\ ~has(<<"c","o","u","n","t","r","y">>))
            THEN <<"s","t","a","t","u","s">>
        ELSE IF has(<<"d","a","t","e">>) \/ has(<<"t","i","m","e">>) \/ has(<<"w","h","e","n">>)
            THEN <<"d","a","t","e">>
        ELSE IF has(<<"p","r","i","c","e">>) \/ has(<<"c","o","s","t">>) \/ has(<<"$">>) \/ has(<<"f","e","e">>)
                \/ (has(<<"a","m","o","u","n","t">>) /\ ~has(<<"q","u","a","n","t","i","t","y">>))
            THEN <<"p","r","i","c","e">>
        ELSE IF has(<<"q","u","a","n","t","i","t","y">>) \/ has(<<"q","t","y">>) \/ has(<<"c","o","u","n","t">>) \/ has(<<"n","u","m","b","e","r"," ","o","f">>)
            THEN <<"q","u","a","n","t","i","t","y">>
        ELSE IF has(<<"r","a","t","i","n","g">>) \/ has(<<"s","c","o","r","e">>) \/ has(<<"r","a","n","k">>) \/ has(<<"r","e","v","i","e","w">>)
            THEN <<"r","a","t","i","n","g">>
        \* Identifiers
        ELSE IF headerLower = <<"i","d">> \/ has(<<"i","d","e","n","t","i","f","i","e","r">>) \/ has(<<"u","u","i","d">>)
                \/ has(<<"c","o","d","e">>) \/ (has(<<"n","u","m","b","e","r">>) /\ has(<<"i","d">>))
            THEN <<"i","d">>
        ELSE IF has(<<"a","c","c","e","s","s">>) \/ has(<<"p","e","r","m","i","s","s","i","o","n">>) \/ has(<<"p","r","i","v","i","l","e","g","e">>)
            THEN <<"a","c","c","e","s","s","L","e","v","e","l">>
        \* Descriptions and content
        ELSE IF has(<<"d","e","s","c","r","i","p","t","i","o","n">>) \/ has(<<"d","e","s","c">>) \/ has(<<"a","b","o","u","t">>)
                \/ has(<<"d","e","t","a","i","l","s">>)
            THEN <<"d","e","s","c","r","i","p","t","i","o","n">>
        ELSE IF has(<<"c","o","m","m","e","n","t">>) \/ has(<<"n","o","t","e">>) \/ has(<<"f","e","e","d","b","a","c","k">>)
            THEN <<"c","o","m","m","e","n","t">>
        \* Time-related
        ELSE IF has(<<"d","u","r","a","t","i","o","n">>) \/ has(<<"l","e","n","g","t","h">>) \/ has(<<"t","i","m","e"," ","s","p","a","n">>)
            THEN <<"d","u","r","a","t","i","o","n">>
        ELSE IF has(<<"s","t","a","r","t">>) /\ has(<<"d","a","t","e">>)
            THEN <<"s","t","a","r","t","D","a","t","e">>
        ELSE IF has(<<"e","n","d">>) /\ has(<<"d","a","t","e">>)
            THEN <<"e","n","d","D","a","t","e">>
        ELSE IF has(<<"d","e","a","d","l","i","n","e">>)
            THEN <<"d","e","a","d","l","i","n","e">>
        \* Financial
        ELSE IF has(<<"b","u","d","g","e","t">>)
            THEN <<"b","u","d","g","e","t">>
        ELSE IF has(<<"r","e","v","e","n","u","e">>) \/ has(<<"s","a","l","e","s">>)
            THEN <<"r","e","v","e","n","u","e">>
        ELSE IF has(<<"p","r","o","f","i","t">>) \/ has(<<"m","a","r","g","i","n">>)
            THEN <<"p","r","o","f","i","t">>
        \* For any other header, use a generic type based on the header name itself
        ELSE <<"g","e","n","e","r","i","c",":">> \o trim(header)

\* the rules applied to the header as it is written
getDataTypeForHeader_CaseSensitive(header) == HeaderRules(trim(header), header)

\* the rules with the start-date and end-date rules tried before all others
getDataTypeForHeader_StartEndFirst(header) ==
    LET headerLower == trim(toLowerCase(header))
    IN  IF Includes(headerLower, <<"s","t","a","r","t">>) /\ Includes(headerLower, <<"d","a","t","e">>) THEN <<"s","t","a","r","t","D","a","t","e">>
        ELSE IF Includes(headerLower, <<"e","n","d">>) /\ Includes(headerLower, <<"d","a","t","e">>) THEN <<"e","n","d","D","a","t","e">>
        ELSE HeaderRules(headerLower, header)

\* Function to determine data type from header name
getDataTypeForHeader(header) == HeaderRules(trim(toLowerCase(header)), header)

\* Shuffle all data arrays: the shuffled copy of one of the nineteen pools
ShuffledHeaderPool(pool, stream) ==
    CASE pool = "firstNames" -> shuffleArray(firstNames, stream, 21)
      [] pool = "lastNames" -> shuffleArray(lastNames, stream, 22)
      [] pool = "departments" -> shuffleArray(departments, stream, 23)
      [] pool = "locations" -> shuffleArray(locations, stream, 24)
      [] pool = "roles" -> shuffleArray(roles, stream, 25)
      [] pool = "teams" -> shuffleArray(teams, stream, 26)
      [] pool = "projects" -> shuffleArray(projects, stream, 27)
      [] pool = "skills" -> shuffleArray(skills, stream, 28)
      [] pool = "languages" -> shuffleArray(languages, stream, 29)
      [] pool = "statuses" -> shuffleArray(statuses, stream, 30)
      [] pool = "companies" -> shuffleArray(companies, stream, 31)
      [] pool = "addresses" -> shuffleArray(addresses, stream, 32)
      [] pool = "cities" -> shuffleArray(cities, stream, 33)
      [] pool = "phoneNumbers" -> shuffleArray(phoneNumbers, stream, 34)
      [] pool = "dates" -> shuffleArray(dates, stream, 35)
      [] pool = "prices" -> shuffleArray(prices, stream, 36)
      [] pool = "quantities" -> shuffleArray(quantities, stream, 37)
      [] pool = "ratings" -> shuffleArray(ratings, stream, 38)
      [] pool = "ids" -> shuffleArray(ids, stream, 39)

\* Handle generic types (headers that don't match any pattern); call is the
\* number of the generateDataForType call, which tells its Math.random result
\* from those of the other calls
GenericData(headerName, rowIndex, call, stream, today) ==
    LET lower == toLowerCase(headerName)
    IN  \* Check if the header might be a percentage
        IF Includes(lower, <<"p","e","r","c","e","n","t">>) \/ Includes(lower, <<"%">>)
        THEN NatToString(RandomInt(Random(stream, 41, call), 100)) \o <<"%">>
        \* Check if the header might be a year
        ELSE IF Includes(lower, <<"y","e","a","r">>)
        THEN NatToString(CivilFromDays(today).y - RandomInt(Random(stream, 42, call), 5))
        \* Check if the header might be related to currency but wasn't caught earlier
        ELSE IF \/ Includes(lower, <<"p","r","i","c","e">>)
                \/ Includes(lower, <<"c","o","s","t">>)
                \/ Includes(lower, <<"p","a","y","m","e","n","t">>)
                \/ Includes(lower, <<"s","a","l","a","r","y">>)
        THEN <<"$">> \o toFixed2(Random(stream, 43, call))
        \* For truly generic headers, generate simple text with the row number
        ELSE headerName \o <<" ">> \o NatToString(rowIndex + 1)

\* Function to generate data for a specific type and row index; call is the
\* number of the call, which tells its Math.random result from the others
generateDataForType(type, rowIndex, call, stream, today) ==
    IF StartsWith(type, <<"g","e","n","e","r","i","c",":">>)
    THEN GenericData(SubSeq(type, 9, Len(type)), rowIndex, call, stream, today)
    ELSE CASE type = <<"f","u","l","l","N","a","m","e">> ->
                 At(ShuffledHeaderPool("firstNames", stream), rowIndex) \o <<" ">> \o At(ShuffledHeaderPool("lastNames", stream), rowIndex)
           [] type = <<"f","i","r","s","t","N","a","m","e">> -> At(ShuffledHeaderPool("firstNames", stream), rowIndex)
           [] type = <<"l","a","s","t","N","a","m","e">> -> At(ShuffledHeaderPool("lastNames", stream), rowIndex)
           [] type = <<"e","m","a","i","l">> ->
                 toLowerCase(At(ShuffledHeaderPool("firstNames", stream), rowIndex)) \o <<".">>
                     \o toLowerCase(At(ShuffledHeaderPool("lastNames", stream), rowIndex)) \o <<"@","c","o","m","p","a","n","y",".","c","o","m">>
           [] type = <<"p","h","o","n","e">> -> At(ShuffledHeaderPool("phoneNumbers", stream), rowIndex)
           [] type = <<"w","e","b","s","i","t","e">> ->
                 <<"h","t","t","p","s",":","/","/","w","w","w",".">>
                     \o KeepLowerAlphanumeric(toLowerCase(At(ShuffledHeaderPool("companies", stream), rowIndex)))
                     \o <<".","c","o","m">>
           [] type = <<"d","e","p","a","r","t","m","e","n","t">> -> At(ShuffledHeaderPool("departments", stream), rowIndex)
           [] type = <<"l","o","c","a","t","i","o","n">> -> At(ShuffledHeaderPool("locations", stream), rowIndex)
           [] type = <<"c","i","t","y">> -> At(ShuffledHeaderPool("cities", stream), rowIndex)
           [] type = <<"s","t","a","t","e">> -> states[(rowIndex % 10) + 1]
           [] type = <<"c","o","u","n","t","r","y">> -> countries[(rowIndex % 10) + 1]
           [] type = <<"z","i","p","C","o","d","e">> ->
                 NatToString(10000 + RandomInt(Random(stream, 44, call), 90000))
           [] type = <<"r","o","l","e">> -> At(ShuffledHeaderPool("roles", stream), rowIndex)
           [] type = <<"t","e","a","m">> -> At(ShuffledHeaderPool("teams", stream), rowIndex)
           [] type = <<"p","r","o","j","e","c","t">> -> At(ShuffledHeaderPool("projects", stream), rowIndex)
           [] type = <<"s","k","i","l","l">> -> At(ShuffledHeaderPool("skills", stream), rowIndex)
           [] type = <<"l","a","n","g","u","a","g","e">> -> At(ShuffledHeaderPool("languages", stream), rowIndex)
           [] type = <<"s","t","a","t","u","s">> -> At(ShuffledHeaderPool("statuses", stream), rowIndex)
           [] type = <<"c","o","m","p","a","n","y">> -> At(ShuffledHeaderPool("companies", stream), rowIndex)
           [] type = <<"a","d","d","r","e","s","s">> ->
                 At(ShuffledHeaderPool("addresses", stream), rowIndex) \o <<","," ">> \o At(ShuffledHeaderPool("cities", stream), rowIndex)
           [] type = <<"d","a","t","e">> -> At(ShuffledHeaderPool("dates", stream), rowIndex)
           [] type = <<"s","t","a","r","t","D","a","t","e">> -> At(ShuffledHeaderPool("dates", stream), rowIndex + 2)
           [] type = <<"e","n","d","D","a","t","e">> -> At(ShuffledHeaderPool("dates", stream), rowIndex + 5)
           [] type = <<"d","e","a","d","l","i","n","e">> -> IsoDate(today + 10 + (rowIndex % 30))
           [] type = <<"p","r","i","c","e">> -> At(ShuffledHeaderPool("prices", stream), rowIndex)
           [] type = <<"b","u","d","g","e","t">> ->
                 <<"$">> \o toLocaleString(10000 + RandomInt(Random(stream, 45, call), 90000))
           [] type = <<"r","e","v","e","n","u","e">> ->
                 <<"$">> \o toLocaleString(100000 + RandomInt(Random(stream, 46, call), 900000))
           [] type = <<"p","r","o","f","i","t">> ->
                 <<"$">> \o toLocaleString(5000 + RandomInt(Random(stream, 47, call), 50000))
           [] type = <<"q","u","a","n","t","i","t","y">> -> At(ShuffledHeaderPool("quantities", stream), rowIndex)
           [] type = <<"r","a","t","i","n","g">> -> At(ShuffledHeaderPool("ratings", stream), rowIndex)
           [] type = <<"i","d">> -> At(ShuffledHeaderPool("ids", stream), rowIndex)
           [] type = <<"a","c","c","e","s","s","L","e","v","e","l">> -> accessLevels[(rowIndex % 5) + 1]
           [] type = <<"d","e","s","c","r","i","p","t","i","o","n">> -> descriptions[(rowIndex % 10) + 1]
           [] type = <<"c","o","m","m","e","n","t">> -> comments[(rowIndex % 10) + 1]
           [] type = <<"d","u","r","a","t","i","o","n">> ->
                 << NatToString(1 + (rowIndex % 12)) \o <<" ","h","o","u","r","s">>,
                    NatToString(1 + (rowIndex % 30)) \o <<" ","d","a","y","s">>,
                    NatToString(1 + (rowIndex % 12)) \o <<" ","m","o","n","t","h","s">> >>[(rowIndex % 3) + 1]
           [] OTHER -> <<"I","t","e","m"," ">> \o NatToString(rowIndex + 1)

\* the generator handing rowIndex + 1 to generateDataForType
generateDataFromHeaders_RowIndexFromOne(headers, rowCount, stream, today) ==
    LET headerTypes == [c \in 1..Len(headers) |-> getDataTypeForHeader(headers[c])]
    IN  [rowIndex \in 1..rowCount |->
            [colIndex \in 1..Len(headers) |->
                generateDataForType(headerTypes[colIndex], rowIndex,
                                    (rowIndex - 1) * Len(headers) + colIndex - 1,
                                    stream, today)]]

\* Function to generate data based on header names
generateDataFromHeaders(headers, rowCount, stream, today) ==
    LET headerTypes == [c \in 1..Len(headers) |-> getDataTypeForHeader(headers[c])]
    IN  [rowIndex \in 1..rowCount |->
            [colIndex \in 1..Len(headers) |->
                generateDataForType(headerTypes[colIndex], rowIndex - 1,
                                    (rowIndex - 1) * Len(headers) + colIndex - 1,
                                    stream, today)]]

-----------------------------------------------------------------------------
(* The two generating actions, and the three actions together               *)

\* the assignments of the loops of the generating actions, which write
\* String(rowData[colIndex]) without the test for null
GeneratedWrites(d, rows, dataRows) ==
    LET hit == SelectSeq(LoopPositions(rows, dataRows),
                         LAMBDA p : findValueLayer(d, p.cell) # NULL)
    IN  [k \in 1..Len(hit) |->
            [node |-> findValueLayer(d, hit[k].cell), text |-> String(hit[k].value)]]

\* rows[0]?.length || 0
ActualColumnCount(rows) == IF Len(rows) = 0 THEN 0 ELSE Len(rows[1])

\* populateTableWithDummyData taking the number of fields from the message
PopulateTableWithDummyData_ByColumnCount(rowCount, columnCount) ==
    /\ pc = "idle"
    /\ Len(selection) > 0
    /\ \E allCells \in {getAllCells(doc, selection)} :
          /\ Len(allCells) > 0
          /\ task' = [NoTask EXCEPT !.type = "generate-dummy-data",
                                    !.rowCount = rowCount,
                                    !.columnCount = columnCount,
                                    !.allCells = allCells,
                                    !.rows = organizeCellsIntoRows(doc, allCells),
                                    !.actualColumnCount = columnCount,
                                    !.allTextNodes = CollectTextNodes(doc, allCells)]
          /\ fontsRequested' = fontsRequested \cup loadFonts(doc, CollectTextNodes(doc, allCells))
    /\ pc' = "loadFonts"
    /\ UNCHANGED <<doc, selection, characters, updatedCount, written, cellsIn, rowsOut,
                   notified, pc2, task2>>

\* populateTableWithDummyData up to its await
PopulateTableWithDummyData(rowCount, columnCount) ==
    /\ pc = "idle"
    /\ \E allCells \in {getAllCells(doc, selection)} :
       \E rows \in {organizeCellsIntoRows(doc, allCells)} :
          IF Len(selection) = 0
          THEN /\ notified' = Append(notified, Notice("select", 0))
               /\ pc' = "done"
               /\ task' = [NoTask EXCEPT !.type = "generate-dummy-data",
                                         !.rowCount = rowCount,
                                         !.columnCount = columnCount]
               /\ UNCHANGED fontsRequested
          ELSE IF Len(allCells) = 0
          THEN /\ notified' = Append(notified, Notice("nocells", 0))
               /\ pc' = "done"
               /\ task' = [NoTask EXCEPT !.type = "generate-dummy-data",
                                         !.rowCount = rowCount,
                                         !.columnCount = columnCount]
               /\ UNCHANGED fontsRequested
          ELSE \E allTextNodes \in {CollectTextNodes(doc, allCells)} :
               /\ task' = [NoTask EXCEPT !.type = "generate-dummy-data",
                                         !.rowCount = rowCount,
                                         !.columnCount = columnCount,
                                         !.allCells = allCells,
                                         !.rows = rows,
                                         !.actualColumnCount = ActualColumnCount(rows),
                                         !.allTextNodes = allTextNodes]
               /\ fontsRequested' = fontsRequested \cup loadFonts(doc, allTextNodes)
               /\ pc' = "loadFonts"
               /\ UNCHANGED notified
    /\ UNCHANGED <<doc, selection, characters, updatedCount, written, cellsIn, rowsOut,
                   pc2, task2>>

\* populateTableWithDummyData after loadFonts has resolved: the Records, the
\* final shuffle and slice, the conversion, the loops, the notification
DummyFontsLoaded ==
    /\ pc = "loadFonts"
    /\ task.type = "generate-dummy-data"
    /\ \E stream \in Streams :
       \E built \in {dummyData(task.rowCount, task.actualColumnCount, stream)} :
       \E used \in {shuffledData(built, task.rowCount, stream)} :
       \E conv \in {convertObjectsTo2DArray(AsArray(used))} :
          IF conv.threw
          THEN /\ pc' = "failed"
               /\ task' = [task EXCEPT !.stream = stream, !.data = AsArray(used)]
               /\ UNCHANGED <<characters, updatedCount, written, notified>>
          ELSE \E writes \in {GeneratedWrites(doc, task.rows, conv.rows)} :
               /\ task' = [task EXCEPT !.stream = stream, !.data = AsArray(used),
                                       !.dataRows = conv.rows]
               /\ characters' = ApplyWrites(characters, writes)
               /\ written' = writes
               /\ updatedCount' = Len(writes)
               /\ notified' = Append(notified, Notice("dummy", Len(writes)))
               /\ pc' = "done"
    /\ UNCHANGED <<doc, selection, cellsIn, rowsOut, fontsRequested, pc2, task2>>

\* populateTableWithCustomDummyData without its return on allCells.length === 0
PopulateTableWithCustomDummyData_NoCellCheck(headers, rowCount) ==
    /\ pc = "idle"
    /\ \E allCells \in {getAllCells(doc, selection)} :
       \E rows \in {organizeCellsIntoRows(doc, allCells)} :
          IF Len(selection) = 0
          THEN /\ notified' = Append(notified, Notice("select", 0))
               /\ pc' = "done"
               /\ task' = [NoTask EXCEPT !.type = "generate-custom-dummy-data",
                                         !.headers = headers,
                                         !.rowCount = rowCount]
               /\ UNCHANGED fontsRequested
          ELSE \E allTextNodes \in {CollectTextNodes(doc, allCells)} :
               /\ task' = [NoTask EXCEPT !.type = "generate-custom-dummy-data",
                                         !.headers = headers,
                                         !.rowCount = rowCount,
                                         !.allCells = allCells,
                                         !.rows = rows,
                                         !.allTextNodes = allTextNodes]
               /\ fontsRequested' = fontsRequested \cup loadFonts(doc, allTextNodes)
               /\ pc' = "loadFonts"
               /\ UNCHANGED notified
    /\ UNCHANGED <<doc, selection, characters, updatedCount, written, cellsIn, rowsOut,
                   pc2, task2>>

\* populateTableWithCustomDummyData up to its await
PopulateTableWithCustomDummyData(headers, rowCount) ==
    /\ pc = "idle"
    /\ \E allCells \in {getAllCells(doc, selection)} :
       \E rows \in {organizeCellsIntoRows(doc, allCells)} :
          IF Len(selection) = 0
          THEN /\ notified' = Append(notified, Notice("select", 0))
               /\ pc' = "done"
               /\ task' = [NoTask EXCEPT !.type = "generate-custom-dummy-data",
                                         !.headers = headers,
                                         !.rowCount = rowCount]
               /\ UNCHANGED fontsRequested
          ELSE IF Len(allCells) = 0
          THEN /\ notified' = Append(notified, Notice("nocells", 0))
               /\ pc' = "done"
               /\ task' = [NoTask EXCEPT !.type = "generate-custom-dummy-data",
                                         !.headers = headers,
                                         !.rowCount = rowCount]
               /\ UNCHANGED fontsRequested
          ELSE \E allTextNodes \in {CollectTextNodes(doc, allCells)} :
               /\ task' = [NoTask EXCEPT !.type = "generate-custom-dummy-data",
                                         !.headers = headers,
                                         !.rowCount = rowCount,
                                         !.allCells = allCells,
                                         !.rows = rows,
                                         !.allTextNodes = allTextNodes]
               /\ fontsRequested' = fontsRequested \cup loadFonts(doc, allTextNodes)
               /\ pc' = "loadFonts"
               /\ UNCHANGED notified
    /\ UNCHANGED <<doc, selection, characters, updatedCount, written, cellsIn, rowsOut,
                   pc2, task2>>

\* [headers, ...data], every string as a value
CustomDataRows(headers, data) ==
    [i \in 1..(1 + Len(data)) |->
        IF i = 1 THEN [c \in 1..Len(headers) |-> StrV(headers[c])]
        ELSE [c \in 1..Len(data[i - 1]) |-> StrV(data[i - 1][c])]]

\* populateTableWithCustomDummyData after loadFonts has resolved: the
\* generated rows under the header row, the loops, the notification
CustomFontsLoaded ==
    /\ pc = "loadFonts"
    /\ task.type = "generate-custom-dummy-data"
    /\ \E stream \in Streams : \E today \in Todays :
       \E data \in {generateDataFromHeaders(task.headers, task.rowCount, stream, today)} :
       \E dataRows \in {CustomDataRows(task.headers, data)} :
       \E writes \in {GeneratedWrites(doc, task.rows, dataRows)} :
          /\ task' = [task EXCEPT !.stream = stream, !.today = today, !.dataRows = dataRows]
          /\ characters' = ApplyWrites(characters, writes)
          /\ written' = writes
          /\ updatedCount' = Len(writes)
          /\ notified' = Append(notified, Notice("custom", Len(writes)))
          /\ pc' = "done"
    /\ UNCHANGED <<doc, selection, cellsIn, rowsOut, fontsRequested, pc2, task2>>

\* the values of msg.data, msg.rowCount, msg.columnCount and msg.headers
ActionDatasets == {NoData, AsArray(<<RecA, RecB>>), AsArray(<<NullV>>)}

ActionRowCounts == {0, 1, MaxRecords}

ActionColumnCounts == {4, 12}

ActionHeaders ==
    { <<>>,
      << <<"E","m","a","i","l"," ","A","d","d","r","e","s","s">> >>,
      << <<"N","a","m","e">>, <<"F","o","o"," ","B","a","r">>, <<"Y","e","a","r">> >>,
      << <<"N","a","m","e">>, <<"E","m","a","i","l"," ","A","d","d","r","e","s","s">>, <<"M","a","i","l","i","n","g"," ","A","d","d","r","e","s","s">> >> }

NextActions ==
    \/ \E data \in ActionDatasets : PopulateTable(data)
    \/ FontsLoaded
    \/ \E rowCount \in ActionRowCounts : \E columnCount \in ActionColumnCounts :
          PopulateTableWithDummyData(rowCount, columnCount)
    \/ DummyFontsLoaded
    \/ \E headers \in ActionHeaders : \E rowCount \in ActionRowCounts :
          PopulateTableWithCustomDummyData(headers, rowCount)
    \/ CustomFontsLoaded

SpecActions == Init /\ [][NextActions]_vars

-----------------------------------------------------------------------------
(* Two messages: the handler is an async function, so a second message can  *)
(* be handled while the first populateTable is suspended at its await       *)
(* (specification SpecTwo)                                                    *)

\* populateTable for a second message, up to its await
SecondPopulateTable(data) ==
    /\ pc # "idle"
    /\ pc2 = "idle"
    /\ \E allCells \in {getAllCells(doc, selection)} :
       \E rows \in {organizeCellsIntoRows(doc, allCells)} :
          IF Len(selection) = 0
          THEN /\ notified' = Append(notified, Notice("select", 0))
               /\ pc2' = "done"
               /\ task2' = [NoTask EXCEPT !.type = "populate-table", !.data = data]
               /\ UNCHANGED fontsRequested
          ELSE IF Len(allCells) = 0
          THEN /\ notified' = Append(notified, Notice("nocells", 0))
               /\ pc2' = "done"
               /\ task2' = [NoTask EXCEPT !.type = "populate-table", !.data = data]
               /\ UNCHANGED fontsRequested
          ELSE \E allTextNodes \in {CollectTextNodes(doc, allCells)} :
               /\ task2' = [NoTask EXCEPT !.type = "populate-table",
                                          !.data = data,
                                          !.allCells = allCells,
                                          !.rows = rows,
                                          !.allTextNodes = allTextNodes]
               /\ fontsRequested' = fontsRequested \cup loadFonts(doc, allTextNodes)
               /\ pc2' = "loadFonts"
               /\ UNCHANGED notified
    /\ UNCHANGED <<doc, selection, characters, updatedCount, written, cellsIn, rowsOut,
                   pc, task>>

\* the second populateTable after its loadFonts has resolved
SecondFontsLoaded ==
    /\ pc2 = "loadFonts"
    /\ \E conv \in {convertObjectsTo2DArray(task2.data)} :
          IF conv.threw
          THEN /\ pc2' = "failed"
               /\ UNCHANGED <<characters, updatedCount, written, notified>>
          ELSE \E writes \in {LoopWrites(doc, task2.rows, conv.rows)} :
               \E count \in {UpdatedCount(doc, task2.rows, conv.rows)} :
                  /\ characters' = ApplyWrites(characters, writes)
                  /\ written' = writes
                  /\ updatedCount' = count
                  /\ notified' = Append(notified, Notice("updated", count))
                  /\ pc2' = "done"
    /\ UNCHANGED <<doc, selection, task2, cellsIn, rowsOut, fontsRequested, pc, task>>

\* the data of the two messages
TwoDatasets == {AsArray(<<RecA, RecB>>), AsArray(<<RecC>>), AsArray(<<NullV>>)}

NextTwo ==
    \/ \E data \in TwoDatasets : PopulateTable(data)
    \/ FontsLoaded
    \/ \E data \in TwoDatasets : SecondPopulateTable(data)
    \/ SecondFontsLoaded

SpecTwo == Init /\ [][NextTwo]_vars

-----------------------------------------------------------------------------
(* The fixed-schema generator on its own: any row count up to MaxRowCount   *)
(* and around the 30 Records the loop always creates, any column count of   *)
(* the message and any width of the topmost table row up to MaxColumns.     *)

MaxRowCount == 5
MaxColumns == 13

RowCounts == (-1..MaxRowCount) \cup {PoolRecords - 1, PoolRecords, PoolRecords + 1}

ColumnCounts == {0, 6, 7, 12}

InitFixed ==
    /\ \E rowCount \in RowCounts, columnCount \in ColumnCounts,
          actualColumnCount \in 0..MaxColumns, stream \in Streams :
          task = [NoTask EXCEPT !.type = "generate-dummy-data",
                                !.rowCount = rowCount,
                                !.columnCount = columnCount,
                                !.actualColumnCount = actualColumnCount,
                                !.stream = stream]
    /\ pc = "idle"
    /\ doc = <<>>
    /\ selection = <<>>
    /\ characters = <<>>
    /\ updatedCount = 0
    /\ notified = <<>>
    /\ written = <<>>
    /\ cellsIn = <<>>
    /\ rowsOut = <<>>
    /\ fontsRequested = {}
    /\ pc2 = "idle"
    /\ task2 = NoTask

GenerateFixed ==
    /\ pc = "idle"
    /\ \E built \in {dummyData(task.rowCount, task.actualColumnCount, task.stream)} :
       \E used \in {shuffledData(built, task.rowCount, task.stream)} :
          task' = [task EXCEPT !.dummyData = built, !.data = AsArray(used)]
    /\ pc' = "done"
    /\ UNCHANGED <<doc, selection, characters, updatedCount, notified, written, cellsIn,
                   rowsOut, fontsRequested, pc2, task2>>

NextFixed == GenerateFixed

SpecFixed == InitFixed /\ [][NextFixed]_vars

-----------------------------------------------------------------------------
(* generateDataFromHeaders on its own (specification SpecHeaders) *)

Headers ==
    { <<"E","m","a","i","l"," ","A","d","d","r","e","s","s">>, <<"M","a","i","l","i","n","g"," ","A","d","d","r","e","s","s">>, <<"F","o","o"," ","B","a","r">>, <<" ","F","o","o"," ","B","a","r"," ">>, <<"Y","e","a","r">>, <<"S","a","l","a","r","y">>,
      <<"P","e","r","c","e","n","t">>, <<"N","a","m","e">>, <<"F","i","r","s","t"," ","N","a","m","e">>, <<"S","t","a","t","e">>, <<"S","t","a","t","u","s">>, <<"I","D">>, <<"P","h","o","n","e"," ","N","u","m","b","e","r">>,
      <<"S","t","a","r","t"," ","D","a","t","e">>, <<"D","e","a","d","l","i","n","e">>, <<"B","u","d","g","e","t">>, <<"Z","i","p">>,
      <<"E","n","d"," ","D","a","t","e">>, <<"P","r","o","j","e","c","t"," ","S","t","a","r","t"," ","D","a","t","e">>, <<"T","i","m","e"," ","S","p","a","n">>, <<"P","r","i","c","e">>, <<"T","o","t","a","l"," ","C","o","s","t">>, <<"P","a","y","m","e","n","t">> }

HeaderLists ==
    {<<>>} \cup {<<h>> : h \in Headers}
      \cup { << <<"E","m","a","i","l"," ","A","d","d","r","e","s","s">>, <<"F","o","o"," ","B","a","r">> >>, << <<"F","o","o"," ","B","a","r">>, <<"E","m","a","i","l"," ","A","d","d","r","e","s","s">> >>,
             << <<"Y","e","a","r">>, <<"E","m","a","i","l"," ","A","d","d","r","e","s","s">>, <<"I","D">> >>,
             << <<"N","a","m","e">>, <<"E","m","a","i","l"," ","A","d","d","r","e","s","s">>, <<"M","a","i","l","i","n","g"," ","A","d","d","r","e","s","s">> >>,
             << <<"S","t","a","r","t"," ","D","a","t","e">>, <<"E","n","d"," ","D","a","t","e">>, <<"D","e","a","d","l","i","n","e">> >> }

InitHeaders ==
    /\ \E headers \in HeaderLists, rowCount \in 0..MaxRowCount, stream \in Streams,
          today \in Todays :
          task = [NoTask EXCEPT !.type = "generate-custom-dummy-data",
                                !.headers = headers,
                                !.rowCount = rowCount,
                                !.stream = stream,
                                !.today = today]
    /\ pc = "idle"
    /\ doc = <<>>
    /\ selection = <<>>
    /\ characters = <<>>
    /\ updatedCount = 0
    /\ notified = <<>>
    /\ written = <<>>
    /\ cellsIn = <<>>
    /\ rowsOut = <<>>
    /\ fontsRequested = {}
    /\ pc2 = "idle"
    /\ task2 = NoTask

GenerateFromHeaders ==
    /\ pc = "idle"
    /\ \E data \in {generateDataFromHeaders(task.headers, task.rowCount, task.stream,
                                             task.today)} :
          task' = [task EXCEPT
                      !.headerTypes = [c \in 1..Len(task.headers) |->
                                          getDataTypeForHeader(task.headers[c])],
                      !.dataRows = CustomDataRows(task.headers, data)]
    /\ pc' = "done"
    /\ UNCHANGED <<doc, selection, characters, updatedCount, notified, written, cellsIn,
                   rowsOut, fontsRequested, pc2, task2>>

NextHeaders == GenerateFromHeaders

SpecHeaders == InitHeaders /\ [][NextHeaders]_vars

-----------------------------------------------------------------------------
(* getAllCells on a tree nested deeper than table, row, cell                *)
(* (specification SpecCells)                                                 *)

\* Section > [Table > [Row > [cell, Cell > [cell]], CELL], Group > [cell, a
\* frame named cell], Cell, a text named cell]
DeepDocument ==
    << Node("FRAME", <<"S","e","c","t","i","o","n">>, 0, 0, <<2, 3, 4, 5>>, NULL),
       Node("INSTANCE", <<"T","a","b","l","e">>, 0, 0, <<6, 7>>, 1),
       Node("GROUP", <<"G","r","o","u","p">>, 0, 0, <<11, 12>>, 1),
       Node("INSTANCE", <<"C","e","l","l">>, 0, 0, <<>>, 1),
       Node("TEXT", <<"c","e","l","l">>, 0, 0, <<>>, 1),
       Node("INSTANCE", <<"R","o","w">>, 0, 0, <<8, 9>>, 2),
       Node("INSTANCE", <<"C","E","L","L">>, 0, 0, <<>>, 2),
       Node("INSTANCE", <<"c","e","l","l">>, 0, 0, <<>>, 6),
       Node("INSTANCE", <<"C","e","l","l">>, 0, 0, <<10>>, 6),
       Node("INSTANCE", <<"c","e","l","l">>, 0, 0, <<>>, 9),
       Node("INSTANCE", <<"c","e","l","l">>, 0, 0, <<>>, 3),
       Node("FRAME", <<"c","e","l","l">>, 0, 0, <<>>, 3) >>

DeepSelections ==
    {q \in DistinctSeqs(DOMAIN DeepDocument, MaxSel) :
        \A i, j \in 1..Len(q) : ~IsAncestor(DeepDocument, q[i], q[j])}

InitCells ==
    /\ doc = DeepDocument
    /\ selection \in DeepSelections
    /\ pc = "idle"
    /\ task = NoTask
    /\ characters = <<>>
    /\ updatedCount = 0
    /\ notified = <<>>
    /\ written = <<>>
    /\ cellsIn = <<>>
    /\ rowsOut = <<>>
    /\ fontsRequested = {}
    /\ pc2 = "idle"
    /\ task2 = NoTask

CollectCells ==
    /\ pc = "idle"
    /\ task' = [NoTask EXCEPT !.type = "getAllCells",
                              !.allCells = getAllCells(doc, selection)]
    /\ pc' = "done"
    /\ UNCHANGED <<doc, selection, characters, updatedCount, notified, written, cellsIn,
                   rowsOut, fontsRequested, pc2, task2>>

NextCells == CollectCells

SpecCells == InitCells /\ [][NextCells]_vars

-----------------------------------------------------------------------------
(* organizeCellsIntoRows on arbitrary cell lists: the cells are the nodes  *)
(* of CellIds, each with any of two x, two y and a parent that is one *)
(* of two row nodes or missing; a list may name a cell more than once.     *)

CellIds == {1, 2, 3}

CellNodes ==
    [CellIds ->
        {Node("INSTANCE", <<"c","e","l","l">>, x, y, <<>>, p) :
            x \in {0, 120}, y \in {0, 40}, p \in {NULL, 10, 11}}]

InitRows ==
    /\ doc \in CellNodes
    /\ cellsIn \in SeqsUpTo(CellIds, MaxCells)
    /\ rowsOut = <<>>
    /\ pc = "idle"
    /\ selection = <<>>
    /\ characters = <<>>
    /\ task = NoTask
    /\ updatedCount = 0
    /\ notified = <<>>
    /\ written = <<>>
    /\ fontsRequested = {}
    /\ pc2 = "idle"
    /\ task2 = NoTask

Organize ==
    /\ pc = "idle"
    /\ rowsOut' = organizeCellsIntoRows(doc, cellsIn)
    /\ pc' = "done"
    /\ UNCHANGED <<doc, selection, characters, task, updatedCount, notified, written, cellsIn,
                   fontsRequested, pc2, task2>>

NextRows == Organize

SpecRows == InitRows /\ [][NextRows]_vars

-----------------------------------------------------------------------------
(* Properties of the populate-table action (specification Spec) *)

\* the action ran its loops and reported its count
Completed ==
    /\ pc = "done"
    /\ Len(notified) > 0
    /\ notified[Len(notified)].kind = "updated"

\* the data of the action is a non-empty Dataset: an array of Records
IsDataset(data) ==
    /\ data.isArray
    /\ Len(data.items) > 0
    /\ \A i \in 1..Len(data.items) : data.items[i].t = "object"

DataRows == convertObjectsTo2DArray(task.data).rows

\* the nodes of a subtree in pre-order
RECURSIVE PreOrder(_, _)
PreOrder(d, n) ==
    <<n>> \o Flatten([i \in 1..Len(d[n].children) |-> PreOrder(d, d[n].children[i])])

IsValueText(d, n) ==
    /\ d[n].type = "TEXT"
    /\ Len(d[n].name) = 5
    /\ d[n].name[1] \in {"v", "V"} /\ d[n].name[2] \in {"a", "A"}
    /\ d[n].name[3] \in {"l", "L"} /\ d[n].name[4] \in {"u", "U"}
    /\ d[n].name[5] \in {"e", "E"}

\* the value slot of a cell: the first text node named "value" in pre-order
Slot(cell) ==
    LET hits == SelectSeq(PreOrder(doc, cell), LAMBDA n : IsValueText(doc, n))
    IN  IF Len(hits) = 0 THEN NULL ELSE hits[1]

\* the (row, column) positions both the table and the data have
Overlap ==
    UNION {{<<i, j>> : j \in 1..Min(Len(task.rows[i]), Len(DataRows[i]))} :
              i \in 1..Min(Len(task.rows), Len(DataRows))}

Cell(p) == task.rows[p[1]][p[2]]

Datum(p) == DataRows[p[1]][p[2]]

LastNotice == notified[Len(notified)]

\* the field names of a Record in the order they were written
FieldNames(rec) == [j \in 1..Len(rec.f) |-> rec.f[j].k]

HasField(rec, key) == \E j \in 1..Len(rec.f) : rec.f[j].k = key

FieldValue(rec, key) == rec.f[CHOOSE j \in 1..Len(rec.f) : rec.f[j].k = key].v

\* the text a data value is shown as: null and absent as the empty string
Shown(v) ==
    CASE v.t = "string" -> v.s
      [] v.t = "number" -> NumberToString(v.n)
      [] OTHER -> <<>>

\* C1: the 2-D table of a non-empty Dataset has the field names of the first
\* Record, in insertion order, as row 0 and the values of Record k in that field
\* order as row k+1; the topmost table Row receives the field names.
C1_HeaderInInsertionOrder ==
    (pc \in {"loadFonts", "done"} /\ IsDataset(task.data)) =>
        LET items == task.data.items
            names == FieldNames(items[1])
        IN  /\ Len(DataRows) = Len(items) + 1
            /\ DataRows[1] = [j \in 1..Len(names) |-> StrV(names[j])]
            /\ \A k \in 1..Len(items) :
                  DataRows[k + 1] =
                      [j \in 1..Len(names) |->
                          IF HasField(items[k], names[j])
                          THEN FieldValue(items[k], names[j]) ELSE UndefinedV]
            /\ Completed =>
                  \A j \in 1..Min(Len(task.rows[1]), Len(names)) :
                      Slot(task.rows[1][j]) # NULL =>
                          characters[Slot(task.rows[1][j])] = names[j]

\* C2: after the action, every overlap position whose cell has a value slot
\* shows the stringified data value of the same row and column; a cell without
\* a slot is skipped and the values are not shifted.
C2_SlotShowsItsValue ==
    Completed =>
        \A p \in Overlap :
            Slot(Cell(p)) # NULL => characters[Slot(Cell(p))] = Shown(Datum(p))

\* a slotless cell in the overlap is followed by a cell that received the
\* value of its own column
C2_Witness ==
    /\ Completed
    /\ \E p \in Overlap :
          /\ <<p[1], p[2] + 1>> \in Overlap
          /\ Slot(Cell(p)) = NULL
          /\ Slot(Cell(<<p[1], p[2] + 1>>)) # NULL
          /\ characters[Slot(Cell(<<p[1], p[2] + 1>>))] = Shown(Datum(<<p[1], p[2] + 1>>))
          /\ Datum(p) # Datum(<<p[1], p[2] + 1>>)

\* C3: a populate action changes nothing but the text of value slots of cells
\* inside the overlap: the tree, the names and the positions stay, surplus rows
\* and columns and all other text nodes keep their text, and the action ends
\* with its success notice and no other.
C3_Step ==
    /\ doc' = doc
    /\ DOMAIN characters' = DOMAIN characters
    /\ \A n \in DOMAIN characters :
          characters'[n] # characters[n] =>
              /\ pc = "loadFonts"
              /\ \E p \in Overlap : Slot(Cell(p)) = n
    /\ (pc = "loadFonts" /\ (IsDataset(task.data) \/ Len(task.data.items) = 0)) =>
          /\ pc' = "done"
          /\ Len(notified') = Len(notified) + 1
          /\ notified'[Len(notified')].kind = "updated"

C3_OnlyOverlapSlotsChange == [][C3_Step]_vars

\* a completed action that left a surplus table row and a surplus column
\* untouched while writing the overlap
C3_Witness ==
    /\ Completed
    /\ Len(DataRows) > 0
    /\ Len(task.rows) > Len(DataRows)
    /\ \E c \in {task.rows[Len(task.rows)][1]} :
          Slot(c) # NULL /\ characters[Slot(c)] = OldText
    /\ \E i \in 1..Len(DataRows) :
          /\ Len(task.rows[i]) > Len(DataRows[i])
          /\ \E c \in {task.rows[i][Len(task.rows[i])]} :
                Slot(c) # NULL /\ characters[Slot(c)] = OldText
    /\ \E p \in Overlap : Slot(Cell(p)) # NULL /\ characters[Slot(Cell(p))] # OldText

\* C4: the reported update count is the number of overlap positions whose cell
\* has a value slot; a slotless cell is not counted and does not stop the loops.
C4_CountIsSlotsInOverlap ==
    Completed =>
        /\ LastNotice.count = Cardinality({p \in Overlap : Slot(Cell(p)) # NULL})
        /\ updatedCount = LastNotice.count

\* a slotless cell was passed over and a later cell was still written and counted
C4_Witness ==
    /\ Completed
    /\ LastNotice.count > 0
    /\ LastNotice.count < Cardinality(Overlap)
    /\ \E p, q \in Overlap :
          /\ p[1] < q[1] \/ (p[1] = q[1] /\ p[2] < q[2])
          /\ Slot(Cell(p)) = NULL
          /\ Slot(Cell(q)) # NULL
          /\ characters[Slot(Cell(q))] # OldText

RECURSIVE SumLen(_)
SumLen(ss) == IF Len(ss) = 0 THEN 0 ELSE Len(Head(ss)) + SumLen(Tail(ss))

TotalCells == Len(task.allCells)

TotalValues == SumLen(DataRows)

Slotless == {i \in 1..Len(task.allCells) : Slot(task.allCells[i]) = NULL}

WrittenNodes == {written[i].node : i \in 1..Len(written)}

\* C5 as the specification states it: the update count equals
\* min(total cells, total data values) minus the number of cells lacking a
\* value slot.
C5_CountIsMinMinusSlotless ==
    (Completed /\ IsDataset(task.data)) =>
        LastNotice.count = Min(TotalCells, TotalValues) - Cardinality(Slotless)

\* C5, amended: populate never writes to more cells than
\* min(total cells, total data values), and the update count equals the number
\* of overlap positions minus the overlap positions whose cell lacks a value
\* slot.
C5_CountIsOverlapMinusSlotless ==
    Completed =>
        /\ Cardinality(WrittenNodes) <= Min(TotalCells, TotalValues)
        /\ LastNotice.count <= Min(TotalCells, TotalValues)
        /\ LastNotice.count =
              Cardinality(Overlap) - Cardinality({p \in Overlap : Slot(Cell(p)) = NULL})

\* rows of unequal length leave the count below min(cells, values) minus the
\* slotless cells
C5_Witness ==
    /\ Completed
    /\ LastNotice.count > 0
    /\ Cardinality(Slotless) > 0
    /\ LastNotice.count < Min(TotalCells, TotalValues) - Cardinality(Slotless)

\* the field names of a record in the order Object.keys lists them: integer
\* names ascending, then the other names in insertion order
InKeyOrder(ks, rec) ==
    LET names == FieldNames(rec)
        pos(k) == CHOOSE i \in 1..Len(names) : names[i] = k
    IN  /\ Len(ks) = Len(names)
        /\ {ks[i] : i \in 1..Len(ks)} = {names[i] : i \in 1..Len(names)}
        /\ \A a, b \in 1..Len(ks) :
              a < b =>
                 \/ IsArrayIndex(ks[a]) /\ ~IsArrayIndex(ks[b])
                 \/ /\ IsArrayIndex(ks[a]) /\ IsArrayIndex(ks[b])
                    /\ StringToNat(ks[a]) < StringToNat(ks[b])
                 \/ /\ ~IsArrayIndex(ks[a]) /\ ~IsArrayIndex(ks[b])
                    /\ pos(ks[a]) < pos(ks[b])

KeysOf(rec) ==
    LET names == FieldNames(rec)
    IN  CHOOSE ks \in [1..Len(names) -> {names[i] : i \in 1..Len(names)}] :
            InKeyOrder(ks, rec)

Records == task.data.items

SameFields ==
    \A i \in 1..Len(Records) :
        {FieldNames(Records[i])[k] : k \in 1..Len(FieldNames(Records[i]))}
            = {FieldNames(Records[1])[k] : k \in 1..Len(FieldNames(Records[1]))}

AllSlotted == \A i \in 1..Len(task.allCells) : Slot(task.allCells[i]) # NULL

\* the text the value slot at row i, column j shows
ReadBack(i, j) == characters[Slot(task.rows[i][j])]

\* C6 as the specification states it: populating a table whose dimensions
\* match a dataset D and reading the value slots back row by row reproduces
\* the stringified D.
C6_RoundTripReproducesD ==
    (/\ Completed
     /\ IsDataset(task.data)
     /\ SameFields
     /\ AllSlotted
     /\ Len(task.rows) = Len(Records)
     /\ \A i \in 1..Len(task.rows) : Len(task.rows[i]) = Len(FieldNames(Records[1])))
    => \A i \in 1..Len(task.rows) : \A j \in 1..Len(task.rows[i]) :
          ReadBack(i, j) = Shown(FieldValue(Records[i], FieldNames(Records[i])[j]))

\* C6, amended: populating a table of one row more than D has records, every
\* row as wide as the first record, and reading the value slots back row by
\* row gives the first record's field names in Object.keys order in the first
\* row and, below it, each record's stringified values in that order.
C6_RoundTripWithHeader ==
    (/\ Completed
     /\ IsDataset(task.data)
     /\ SameFields
     /\ AllSlotted
     /\ Len(task.rows) = Len(Records) + 1
     /\ \A i \in 1..Len(task.rows) : Len(task.rows[i]) = Len(FieldNames(Records[1])))
    => LET ks == KeysOf(Records[1])
       IN  \A j \in 1..Len(ks) :
              /\ ReadBack(1, j) = ks[j]
              /\ \A i \in 1..Len(Records) :
                    ReadBack(i + 1, j) = Shown(FieldValue(Records[i], ks[j]))

\* a two-by-two table read back after populate with one record of two fields
C6_Witness ==
    /\ Completed
    /\ IsDataset(task.data)
    /\ SameFields
    /\ AllSlotted
    /\ Len(task.rows) = Len(Records) + 1
    /\ \A i \in 1..Len(task.rows) : Len(task.rows[i]) = Len(FieldNames(Records[1]))
    /\ Len(FieldNames(Records[1])) >= 2
    /\ ReadBack(1, 1) # ReadBack(1, 2)
    /\ ReadBack(2, 1) # ReadBack(2, 2)

\* the texts a populate with this dataset may put into a value slot
AllowedTexts ==
    LET ks == KeysOf(Records[1])
    IN  {ks[j] : j \in 1..Len(ks)} \cup
        {IF HasField(Records[i], ks[j]) /\ FieldValue(Records[i], ks[j]).t # "null"
         THEN String(FieldValue(Records[i], ks[j])) ELSE <<>> :
            i \in 1..Len(Records), j \in 1..Len(ks)}

\* C7: a null value or a field a record lacks shows as the empty string, never
\* as "null" or "undefined"; every other value shows as its string form; a
\* field a later record has that the first lacks is never written.
C7_NullAndAbsentShownEmpty ==
    (Completed /\ IsDataset(task.data)) =>
        LET ks == KeysOf(Records[1])
        IN  /\ \A p \in Overlap :
                  (p[1] >= 2 /\ Slot(Cell(p)) # NULL) =>
                     LET rec == Records[p[1] - 1]
                         key == ks[p[2]]
                     IN  characters[Slot(Cell(p))] =
                            IF HasField(rec, key) /\ FieldValue(rec, key).t # "null"
                            THEN String(FieldValue(rec, key))
                            ELSE <<>>
            /\ \A n \in DOMAIN characters :
                  /\ characters[n] # <<"n","u","l","l">>
                  /\ characters[n] # <<"u","n","d","e","f","i","n","e","d">>
                  /\ characters[n] # OldText => characters[n] \in AllowedTexts

\* one slot shows "" for a null value, another shows "" for an absent field,
\* and a later record carries a field the first record lacks
C7_Witness ==
    /\ Completed
    /\ IsDataset(task.data)
    /\ \E p, q \in Overlap :
          /\ p[1] >= 2 /\ q[1] >= 2
          /\ Slot(Cell(p)) # NULL /\ Slot(Cell(q)) # NULL
          /\ HasField(Records[p[1] - 1], KeysOf(Records[1])[p[2]])
          /\ FieldValue(Records[p[1] - 1], KeysOf(Records[1])[p[2]]).t = "null"
          /\ characters[Slot(Cell(p))] = <<>>
          /\ ~HasField(Records[q[1] - 1], KeysOf(Records[1])[q[2]])
          /\ characters[Slot(Cell(q))] = <<>>
    /\ \E i \in 2..Len(Records) : \E k \in 1..Len(FieldNames(Records[i])) :
          ~HasField(Records[1], FieldNames(Records[i])[k])

------------------------------------------------------------------------------
(* Properties of organizeCellsIntoRows (specification SpecRows) *)

Organized == pc = "done" /\ Len(cellsIn) > 0

CellsGiven == {cellsIn[i] : i \in 1..Len(cellsIn)}

WellFormed == \A c \in CellsGiven : doc[c].parent # NULL

InRow(r, c) == \E j \in 1..Len(rowsOut[r]) : rowsOut[r][j] = c

\* C8: for cells that all have a parent, the number of rows is the number of
\* distinct parents of the cells, and two cells are in the same row exactly
\* when they have the same parent.
C8_RowsAreParents ==
    (Organized /\ WellFormed) =>
        /\ Len(rowsOut) = Cardinality({doc[c].parent : c \in CellsGiven})
        /\ \A a, b \in CellsGiven :
              (\E r \in 1..Len(rowsOut) : InRow(r, a) /\ InRow(r, b))
                  <=> doc[a].parent = doc[b].parent

\* three cells of two parents, discovered interleaved, end in two rows
C8_Witness ==
    /\ Organized
    /\ WellFormed
    /\ Len(cellsIn) = 3
    /\ doc[cellsIn[1]].parent = doc[cellsIn[3]].parent
    /\ doc[cellsIn[1]].parent # doc[cellsIn[2]].parent
    /\ cellsIn[1] # cellsIn[3]
    /\ Len(rowsOut) = 2
    /\ \E r \in 1..2 : InRow(r, cellsIn[1]) /\ InRow(r, cellsIn[3])

\* C9: the rows are ordered by non-decreasing y of their first cell.
C9_RowsByY ==
    Organized =>
        \A r \in 1..(Len(rowsOut) - 1) :
            doc[rowsOut[r][1]].y <= doc[rowsOut[r + 1][1]].y

\* the row discovered first lies lower and comes out second
C9_Witness ==
    /\ Organized
    /\ Len(rowsOut) = 2
    /\ doc[cellsIn[1]].parent # NULL
    /\ InRow(2, cellsIn[1])
    /\ ~InRow(1, cellsIn[1])
    /\ doc[rowsOut[1][1]].y < doc[rowsOut[2][1]].y

\* C10: within every row the cells are ordered by non-decreasing x, whatever
\* the order of discovery.
C10_CellsByX ==
    Organized =>
        \A r \in 1..Len(rowsOut) : \A j \in 1..(Len(rowsOut[r]) - 1) :
            doc[rowsOut[r][j]].x <= doc[rowsOut[r][j + 1]].x

\* two cells of one row discovered right to left come out left to right
C10_Witness ==
    /\ Organized
    /\ \E r \in 1..Len(rowsOut) :
          /\ Len(rowsOut[r]) >= 2
          /\ doc[rowsOut[r][1]].x < doc[rowsOut[r][2]].x
          /\ \E i, k \in 1..Len(cellsIn) :
                i < k /\ cellsIn[i] = rowsOut[r][2] /\ cellsIn[k] = rowsOut[r][1]
                /\ \A m \in 1..Len(cellsIn) : cellsIn[m] = rowsOut[r][2] => m <= i

------------------------------------------------------------------------------
(* Properties of the populate actions on values that are no Dataset, of font *)
(* loading and of the status notifications                                  *)

\* the populate-table action got past its early returns and has ended
Ended == pc \in {"done", "failed"} /\ task.type = "populate-table" /\ Len(task.allCells) > 0

Untouched == \A n \in DOMAIN characters : characters[n] = OldText

\* C12: a value that is not a non-empty sequence of Records (not an array, an
\* empty array, an array holding null, 5 or "ab") is treated as an empty
\* Dataset: no exception, no text node changed, an update count of 0 reported.
C12_MalformedIsEmptyDataset ==
    (Ended /\ ~IsDataset(task.data)) =>
        /\ pc = "done"
        /\ Untouched
        /\ notified = <<Notice("updated", 0)>>

------------------------------------------------------------------------------
(* Properties of the fixed-schema generator (specification SpecFixed) *)

Generated == pc = "done" /\ task.type = "generate-dummy-data"

BaseFields ==
    << <<"N","a","m","e">>, <<"D","e","p","a","r","t","m","e","n","t">>, <<"E","m","a","i","l">>, <<"L","o","c","a","t","i","o","n">>,
       <<"A","c","c","e","s","s"," ","L","e","v","e","l">>, <<"S","t","a","t","u","s">> >>

ExtraFields ==
    << <<"T","e","a","m">>, <<"P","r","o","j","e","c","t">>, <<"S","k","i","l","l">>, <<"L","a","n","g","u","a","g","e">>,
       <<"S","t","a","r","t"," ","D","a","t","e">>, <<"P","h","o","n","e">> >>

\* the field names of a Record whose extended fields are decided by count n
FieldsFor(n) ==
    BaseFields \o SelectSeq([k \in 1..6 |-> IF n > 5 + k THEN ExtraFields[k] ELSE <<>>],
                            LAMBDA name : name # <<>>)

\* C16: for a row count of 0 or more the loop builds max(rowCount, 30) Records
\* and the Dataset used for population holds exactly rowCount of them.
C16_ExactlyRowCountRecords ==
    (Generated /\ task.rowCount >= 0) =>
        /\ Len(task.dummyData) = (IF task.rowCount > 30 THEN task.rowCount ELSE 30)
        /\ Len(task.data.items) = task.rowCount
        /\ \A i \in 1..Len(task.data.items) :
              \E k \in 1..Len(task.dummyData) : task.data.items[i] = task.dummyData[k]

\* 31 Records were built and used, and in another run 30 were built and 5 used
C16_Witness ==
    /\ Generated
    /\ \/ task.rowCount = 31 /\ Len(task.dummyData) = 31 /\ Len(task.data.items) = 31
       \/ task.rowCount = 5 /\ Len(task.dummyData) = 30 /\ Len(task.data.items) = 5

\* C17 as the specification states it: every Record has the six base fields
\* in order, and the k-th extended field is present exactly when the column
\* count of the message exceeds 5 + k.
C17_FieldsByColumnCountHint ==
    Generated =>
        \A i \in 1..Len(task.dummyData) :
            FieldNames(task.dummyData[i]) = FieldsFor(task.columnCount)

\* C17, amended: every Record has the six base fields in order, and the k-th
\* extended field is present exactly when the number of cells of the topmost
\* table row exceeds 5 + k; the column count of the message plays no part.
C17_FieldsByTopRowWidth ==
    Generated =>
        \A i \in 1..Len(task.dummyData) :
            FieldNames(task.dummyData[i]) = FieldsFor(task.actualColumnCount)

\* a message asking for 6 columns on a table 9 cells wide gives Records of 9 fields
C17_Witness ==
    /\ Generated
    /\ task.columnCount = 6
    /\ task.actualColumnCount = 9
    /\ Len(task.data.items) > 0
    /\ Len(FieldNames(task.data.items[1])) = 9
    /\ FieldNames(task.data.items[1])[9] = <<"S","k","i","l","l">>

-----------------------------------------------------------------------------
(* Properties of the three actions together (specification SpecActions) *)

Started == task.type # "none"

\* C11: with an empty selection, or a selection that yields no cell, each of
\* the three populate actions ends without requesting a font and without
\* changing a text node, and its only notification is the condition: "select
\* cells" for the empty selection, "no cells found" for the other.
C11_AbortsReportTheCondition ==
    (Started /\ (Len(selection) = 0 \/ Len(getAllCells(doc, selection)) = 0)) =>
        /\ pc = "done"
        /\ fontsRequested = {}
        /\ Untouched
        /\ written = <<>>
        /\ notified = << Notice(IF Len(selection) = 0 THEN "select" ELSE "nocells", 0) >>

\* the schema-inferred action ended on a selection of nodes none of which
\* leads to a cell
C11_Witness ==
    /\ task.type = "generate-custom-dummy-data"
    /\ Len(selection) > 0
    /\ pc = "done"
    /\ notified = << Notice("nocells", 0) >>

\* a step in which an action resumes after its await and runs to its end
Resumes == pc = "loadFonts" /\ pc' = "done"

C13_Step ==
    /\ ~Resumes => (characters' = characters /\ written' = written)
    /\ Resumes =>
          \A k \in 1..Len(written') :
              /\ \E i \in 1..Len(task.allTextNodes) : task.allTextNodes[i] = written'[k].node
              /\ FontsOf(written'[k].node) \subseteq fontsRequested

\* C13: in every populate action a text node is assigned only in the step
\* after the font loading has completed, the node is among the text nodes
\* handed to loadFonts, and every font of the node was requested; no text
\* changes before or while the loading is pending.
C13_WritesOnlyAfterTheirFontsLoad == [][C13_Step]_vars

\* a step in which an action comes to its end, normally or by an exception
Terminates == pc' # pc /\ pc' \in {"done", "failed"}

C15_Step ==
    /\ ~Terminates => notified' = notified
    /\ Terminates =>
          /\ pc' = "done"
          /\ notified = <<>>
          /\ Len(notified') = 1
          /\ \/ notified'[1] \in {Notice("select", 0), Notice("nocells", 0)}
             \/ /\ notified'[1].kind \in {"updated", "dummy", "custom"}
                /\ notified'[1].count = updatedCount'

\* C15: every populate action that is started ends, and its last step emits
\* its one and only notification: one of the two abort conditions, or the
\* success message with the update count; never both and never none.
C15_ExactlyOneNotification == [][C15_Step]_vars

\* the schema-inferred action got past its early returns and has ended
CustomDone ==
    pc = "done" /\ task.type = "generate-custom-dummy-data" /\ Len(task.allCells) > 0

\* C19: the generator returns rowCount rows of len(headers) strings, the
\* value of row r and column c being one that generateDataForType gives for
\* the type of headers[c] and row index r; the action puts the headers
\* themselves on top, so that table Row 0 shows the headers unchanged and
\* table Row r+1 shows generated row r.
C19_RowsFollowHeaderTypes ==
    CustomDone =>
        LET headers == task.headers
            n == Len(headers)
            dataRows == task.dataRows
        IN  /\ Len(dataRows) = 1 + task.rowCount
            /\ dataRows[1] = [c \in 1..n |-> StrV(headers[c])]
            /\ \A r \in 1..task.rowCount :
                  /\ Len(dataRows[r + 1]) = n
                  /\ \A c \in 1..n :
                        /\ dataRows[r + 1][c].t = "string"
                        /\ \E call \in 0..(task.rowCount * n) :
                              dataRows[r + 1][c].s =
                                  generateDataForType(getDataTypeForHeader(headers[c]), r - 1,
                                                      call, task.stream, task.today)
            /\ \A i \in 1..Min(Len(task.rows), Len(dataRows)) :
                  \A j \in 1..Min(Len(task.rows[i]), n) :
                      Slot(task.rows[i][j]) # NULL =>
                          characters[Slot(task.rows[i][j])] = dataRows[i][j].s

\* a table of two rows shows the header "Foo Bar" in its top row and the
\* generated "Foo Bar 1" under it
C19_Witness ==
    /\ CustomDone
    /\ task.rowCount = 2
    /\ Len(task.headers) = 3
    /\ Len(task.rows) >= 2
    /\ Len(task.rows[1]) >= 2 /\ Len(task.rows[2]) >= 2
    /\ Slot(task.rows[1][2]) # NULL /\ Slot(task.rows[2][2]) # NULL
    /\ characters[Slot(task.rows[1][2])] = <<"F","o","o"," ","B","a","r">>
    /\ characters[Slot(task.rows[2][2])] = <<"F","o","o"," ","B","a","r"," ","1">>

-----------------------------------------------------------------------------
(* Properties of the schema-inferred generator (specification SpecHeaders) *)

HeadersDone == pc = "done" /\ task.type = "generate-custom-dummy-data"

\* the type the ordered rules give each header of the model, read off the
\* rule list by hand
ExpectedType(header) ==
    CASE header = <<"E","m","a","i","l"," ","A","d","d","r","e","s","s">> -> <<"e","m","a","i","l">>
      [] header = <<"M","a","i","l","i","n","g"," ","A","d","d","r","e","s","s">> -> <<"e","m","a","i","l">>
      [] header = <<"F","o","o"," ","B","a","r">> -> <<"g","e","n","e","r","i","c",":","F","o","o"," ","B","a","r">>
      [] header = <<" ","F","o","o"," ","B","a","r"," ">> -> <<"g","e","n","e","r","i","c",":","F","o","o"," ","B","a","r">>
      [] header = <<"Y","e","a","r">> -> <<"g","e","n","e","r","i","c",":","Y","e","a","r">>
      [] header = <<"S","a","l","a","r","y">> -> <<"g","e","n","e","r","i","c",":","S","a","l","a","r","y">>
      [] header = <<"P","e","r","c","e","n","t">> -> <<"g","e","n","e","r","i","c",":","P","e","r","c","e","n","t">>
      [] header = <<"N","a","m","e">> -> <<"f","u","l","l","N","a","m","e">>
      [] header = <<"F","i","r","s","t"," ","N","a","m","e">> -> <<"f","i","r","s","t","N","a","m","e">>
      [] header = <<"S","t","a","t","e">> -> <<"s","t","a","t","e">>
      [] header = <<"S","t","a","t","u","s">> -> <<"s","t","a","t","u","s">>
      [] header = <<"I","D">> -> <<"i","d">>
      [] header = <<"P","h","o","n","e"," ","N","u","m","b","e","r">> -> <<"p","h","o","n","e">>
      [] header = <<"S","t","a","r","t"," ","D","a","t","e">> -> <<"d","a","t","e">>
      [] header = <<"D","e","a","d","l","i","n","e">> -> <<"d","e","a","d","l","i","n","e">>
      [] header = <<"B","u","d","g","e","t">> -> <<"b","u","d","g","e","t">>
      [] header = <<"Z","i","p">> -> <<"z","i","p","C","o","d","e">>
      [] header = <<"E","n","d"," ","D","a","t","e">> -> <<"d","a","t","e">>
      [] header = <<"P","r","o","j","e","c","t"," ","S","t","a","r","t"," ","D","a","t","e">> -> <<"p","r","o","j","e","c","t">>
      [] header = <<"T","i","m","e"," ","S","p","a","n">> -> <<"d","a","t","e">>
      [] header = <<"P","r","i","c","e">> -> <<"p","r","i","c","e">>
      [] header = <<"T","o","t","a","l"," ","C","o","s","t">> -> <<"p","r","i","c","e">>
      [] header = <<"P","a","y","m","e","n","t">> -> <<"g","e","n","e","r","i","c",":","P","a","y","m","e","n","t">>

\* the value generated for column c in row index r
Value(r, c) == task.dataRows[r + 2][c].s

IsGeneric(type) == StartsWith(type, <<"g","e","n","e","r","i","c",":">>)

\* the header names a percentage, a year or an amount of money
PatternHeader(header) ==
    \E word \in {<<"p","e","r","c","e","n","t">>, <<"%">>, <<"y","e","a","r">>, <<"p","r","i","c","e">>, <<"c","o","s","t">>, <<"p","a","y","m","e","n","t">>, <<"s","a","l","a","r","y">>} :
        Includes(toLowerCase(header), word)

\* C18 as the specification states it: the type of a header is fixed by the
\* header alone, "Email Address" is an email whose values contain "@", and a
\* header that matches no rule has the type generic:<header> and the value
\* "<header> <r+1>" in row index r.
C18_GenericIsHeaderAndRowNumber ==
    HeadersDone =>
        \A c \in 1..Len(task.headers) :
            LET header == task.headers[c]
                type == task.headerTypes[c]
            IN  /\ type = ExpectedType(header)
                /\ header = <<"E","m","a","i","l"," ","A","d","d","r","e","s","s">> =>
                      \A r \in 0..(task.rowCount - 1) : Includes(Value(r, c), <<"@">>)
                /\ IsGeneric(type) =>
                      /\ type = <<"g","e","n","e","r","i","c",":">> \o trim(header)
                      /\ \A r \in 0..(task.rowCount - 1) :
                            Value(r, c) = trim(header) \o <<" ">> \o NatToString(r + 1)

\* C18, amended: the type of a header is fixed by the header alone (first
\* matching rule on the lower-cased, trimmed header), "Email Address" is an
\* email whose values contain "@", and a header that matches no rule has the
\* type generic:<trimmed header>; its value in row index r is
\* "<trimmed header> <r+1>" unless the header contains percent, %, year,
\* price, cost, payment or salary.
C18_GenericIsHeaderAndRowNumberUnlessPattern ==
    HeadersDone =>
        \A c \in 1..Len(task.headers) :
            LET header == task.headers[c]
                type == task.headerTypes[c]
            IN  /\ type = ExpectedType(header)
                /\ header = <<"E","m","a","i","l"," ","A","d","d","r","e","s","s">> =>
                      \A r \in 0..(task.rowCount - 1) : Includes(Value(r, c), <<"@">>)
                /\ IsGeneric(type) =>
                      /\ type = <<"g","e","n","e","r","i","c",":">> \o trim(header)
                      /\ ~PatternHeader(header) =>
                            \A r \in 0..(task.rowCount - 1) :
                                Value(r, c) = trim(header) \o <<" ">> \o NatToString(r + 1)

\* "Email Address" after "Year" is an email with an "@" in row index 2, and
\* "Foo Bar" gives "Foo Bar 1" in row index 0
C18_Witness ==
    /\ HeadersDone
    /\ task.rowCount >= 3
    /\ \/ /\ task.headers = << <<"Y","e","a","r">>, <<"E","m","a","i","l"," ","A","d","d","r","e","s","s">>, <<"I","D">> >>
          /\ task.headerTypes[2] = <<"e","m","a","i","l">>
          /\ Includes(Value(2, 2), <<"@">>)
       \/ /\ task.headers = << <<"F","o","o"," ","B","a","r">>, <<"E","m","a","i","l"," ","A","d","d","r","e","s","s">> >>
          /\ task.headerTypes[1] = <<"g","e","n","e","r","i","c",":","F","o","o"," ","B","a","r">>
          /\ Value(0, 1) = <<"F","o","o"," ","B","a","r"," ","1">>

-----------------------------------------------------------------------------
(* Properties of two messages (specification SpecTwo) *)

\* the assignments a populate-table action makes once its font loading is over
WritesOf(t) ==
    LET conv == convertObjectsTo2DArray(t.data)
    IN  IF conv.threw THEN <<>>
        ELSE LET pairs == LoopPositions(t.rows, conv.rows)
                 slotted == SelectSeq(pairs, LAMBDA p : Slot(p.cell) # NULL)
             IN  [k \in 1..Len(slotted) |->
                     [node |-> Slot(slotted[k].cell), text |-> Shown(slotted[k].value)]]

\* C14 as the specification states it: no message is handled while an
\* earlier populate action is suspended at its await, so two populate
\* actions are never in flight together.
C14_NeverTwoInFlight == ~(pc = "loadFonts" /\ pc2 \in {"loadFonts", "done", "failed"})

C14_Step ==
    characters' # characters =>
        \/ /\ pc = "loadFonts" /\ pc' = "done" /\ pc2' = pc2
           /\ characters' = ApplyWrites(characters, WritesOf(task))
        \/ /\ pc2 = "loadFonts" /\ pc2' = "done" /\ pc' = pc
           /\ characters' = ApplyWrites(characters, WritesOf(task2))

\* C14, amended: a second message can be handled while an earlier populate
\* action is suspended at its await, so two actions can be in flight; their
\* text writes still never interleave, because each action makes all its
\* assignments in the one step that follows its own await, and the text is
\* changed by nothing else.
C14_WritesNeverInterleave == [][C14_Step]_vars

\* the second action, started while the first was suspended, has written its
\* values and the first then overwrote them with its own
C14_Witness ==
    /\ pc = "done" /\ pc2 = "done"
    /\ Len(notified) = 2
    /\ task.data # task2.data
    /\ Len(WritesOf(task)) > 0 /\ Len(WritesOf(task2)) > 0
    /\ characters = ApplyWrites(ApplyWrites([n \in DOMAIN characters |-> OldText],
                                             WritesOf(task2)), WritesOf(task))
    /\ characters # ApplyWrites(ApplyWrites([n \in DOMAIN characters |-> OldText],
                                             WritesOf(task)), WritesOf(task2))

-----------------------------------------------------------------------------
(* Properties of cell discovery (specification SpecCells) *)

\* a Cell: an INSTANCE whose name is "cell" in any mix of cases
IsCell(n) ==
    /\ doc[n].type = "INSTANCE"
    /\ Len(doc[n].name) = 4
    /\ doc[n].name[1] \in {"c", "C"} /\ doc[n].name[2] \in {"e", "E"}
    /\ doc[n].name[3] \in {"l", "L"} /\ doc[n].name[4] \in {"l", "L"}

Parent(n) == doc[n].parent

\* the depths at which a root lets a Cell be collected: (a) the root itself;
\* (b), (c) a child of a root that is no Cell; (c) a grandchild of a root that
\* is no INSTANCE, under a child that is no Cell
Permitted(root, n) ==
    \/ n = root
    \/ ~IsCell(root) /\ Parent(n) = root
    \/ /\ doc[root].type # "INSTANCE"
       /\ Parent(n) # NULL
       /\ Parent(Parent(n)) = root
       /\ ~IsCell(Parent(n))

\* the Cells of a root at the permitted depths, in document order
CellsWithin(root) ==
    SelectSeq(PreOrder(doc, root), LAMBDA n : IsCell(n) /\ Permitted(root, n))

\* C20: getAllCells returns, root by root in selection order and in document
\* order within a root, exactly the Cells at the permitted depths: the root
\* itself, the Cell children of a root that is no Cell, and for a root that is
\* no INSTANCE the Cell children of its children that are no Cells.  Deeper
\* Cells are never collected, and a root without such Cells gives none.
C20_CellsAtPermittedDepthsOnly ==
    (pc = "done" /\ task.type = "getAllCells") =>
        task.allCells = Flatten([i \in 1..Len(selection) |-> CellsWithin(selection[i])])

\* the Section gives the Cell of its Table, of its Group and its own, and
\* none of the three Cells that lie deeper
C20_Witness ==
    /\ pc = "done" /\ task.type = "getAllCells"
    /\ selection = <<1>>
    /\ task.allCells = <<7, 11, 4>>

-----------------------------------------------------------------------------
(* Further properties of populateTable (specification Spec) *)

\* the nodes the action has assigned a text to
Assigned == {written[k].node : k \in 1..Len(written)}

\* C21: findValueLayer gives, for every collected cell, the first node of the
\* cell's subtree in pre-order that is a text named "value" in any mix of
\* cases; a node of that name that is no text is passed over and its
\* descendants are searched; the result is absent exactly when the subtree
\* has no such text.  The nodes written are these results for the overlap.
C21_FirstValueTextInPreOrder ==
    (pc \in {"loadFonts", "done"} /\ task.type = "populate-table") =>
        /\ \A i \in 1..Len(task.allCells) :
              LET cell == task.allCells[i]
              IN  /\ findValueLayer(doc, cell) = Slot(cell)
                  /\ (Slot(cell) = NULL) <=>
                        ~\E k \in 1..Len(PreOrder(doc, cell)) :
                            IsValueText(doc, PreOrder(doc, cell)[k])
        /\ Completed => Assigned = {Slot(Cell(p)) : p \in Overlap} \ {NULL}

\* one cell was written in the text under its frame named "value", another in
\* its own text named "VALUE" that precedes the frame, a third has no slot
C21_Witness ==
    /\ Completed
    /\ \E p, q, r \in Overlap :
          /\ Slot(Cell(p)) = Base(Cell(p)) + 2 /\ Slot(Cell(p)) \in Assigned
          /\ Slot(Cell(q)) = Base(Cell(q)) /\ Slot(Cell(q)) \in Assigned
          /\ Slot(Cell(r)) = NULL

-----------------------------------------------------------------------------
(* Further properties of organizeCellsIntoRows (specification SpecRows) *)

HasParent(c) == doc[c].parent # NULL

\* a table of data wide and long enough for every cell of the list
AmpleData == [i \in 1..Len(cellsIn) |-> [j \in 1..Len(cellsIn) |-> StrV(<<"x">>)]]

\* C22: a collected cell without a parent is in no row and raises no error,
\* so the populate loops never visit it however much data there is; the
\* other cells are organized as if it had not been collected.
C22_ParentlessCellIsDropped ==
    Organized =>
        /\ \A c \in CellsGiven : ~HasParent(c) => \A r \in 1..Len(rowsOut) : ~InRow(r, c)
        /\ \A k \in 1..Len(LoopPositions(rowsOut, AmpleData)) :
              HasParent(LoopPositions(rowsOut, AmpleData)[k].cell)
        /\ rowsOut = organizeCellsIntoRows(doc, SelectSeq(cellsIn, HasParent))

\* a parentless cell was collected between two cells of one row, and the row
\* holds just those two
C22_Witness ==
    /\ Organized
    /\ Len(cellsIn) = 3
    /\ HasParent(cellsIn[1]) /\ ~HasParent(cellsIn[2]) /\ HasParent(cellsIn[3])
    /\ cellsIn[1] # cellsIn[3]
    /\ Len(rowsOut) = 1
    /\ Len(rowsOut[1]) = 2

\* the number of times c occurs in a list
Count(list, c) == Len(SelectSeq(list, LAMBDA e : e = c))

\* C23: the rows partition the input: no row is empty, every cell with a
\* parent is in exactly one row, as often as the input names it, and the row
\* lengths add up to the number of input cells that have a parent.
C23_RowsPartitionTheInput ==
    Organized =>
        /\ \A r \in 1..Len(rowsOut) : Len(rowsOut[r]) > 0
        /\ \A c \in CellsGiven :
              HasParent(c) =>
                  \E r \in 1..Len(rowsOut) :
                      /\ Count(rowsOut[r], c) = Count(cellsIn, c)
                      /\ \A q \in 1..Len(rowsOut) : q # r => ~InRow(q, c)
        /\ SumLen(rowsOut) = Len(SelectSeq(cellsIn, HasParent))

\* three cells of two parents and one without: two rows of three cells in all
C23_Witness ==
    /\ Organized
    /\ Len(cellsIn) = 3
    /\ \E c \in CellsGiven : ~HasParent(c)
    /\ Len(rowsOut) = 2
    /\ SumLen(rowsOut) = 2

-----------------------------------------------------------------------------
(* Properties of repeated and of differing actions *)

\* no selected node is another selected node or lies below one
NonNested ==
    \A i, j \in 1..Len(selection) :
        i # j => (selection[i] # selection[j] /\ ~IsAncestor(doc, selection[i], selection[j]))

Distinct(list) == \A i, j \in 1..Len(list) : i # j => list[i] # list[j]

\* C24: on a selection without nested or repeated roots getAllCells returns
\* every cell at most once, so no cell is at two positions of the rows, no
\* value slot is written twice in one action, and the update count is at
\* most the number of distinct cells.
C24_EachCellOnce ==
    (NonNested /\ pc \in {"loadFonts", "done"} /\ task.type = "populate-table") =>
        /\ Distinct(task.allCells)
        /\ Distinct(Flatten(task.rows))
        /\ Completed =>
              /\ Distinct([k \in 1..Len(written) |-> written[k].node])
              /\ updatedCount <= Cardinality({task.allCells[i] : i \in 1..Len(task.allCells)})

\* two selected rows gave five cells, all written once
C24_Witness ==
    /\ Completed
    /\ Len(selection) = 2
    /\ Len(task.allCells) = 5
    /\ updatedCount = 5
    /\ Len(written) = 5

\* the value slots action t covers
Covered(t) == {WritesOf(t)[k].node : k \in 1..Len(WritesOf(t))}

\* what the completion of action t, with the other action in state otherPc,
\* does to the texts and to the update count
Completes(t, other, otherPc) ==
    /\ LET writes == WritesOf(t)
           covered == {writes[k].node : k \in 1..Len(writes)}
       IN  /\ \A k \in 1..Len(writes) : characters'[writes[k].node] = writes[k].text
           /\ \A n \in DOMAIN characters : n \notin covered => characters'[n] = characters[n]
    /\ (otherPc \in {"done", "failed"} /\ other.data = t.data) =>
          /\ characters' = characters
          /\ updatedCount' = updatedCount
          /\ Len(notified') > Len(notified) =>
                notified'[Len(notified')] = notified[Len(notified)]

C25_Step ==
    /\ (pc = "loadFonts" /\ pc' # "loadFonts") => Completes(task, task2, pc2)
    /\ (pc2 = "loadFonts" /\ pc2' # "loadFonts") => Completes(task2, task, pc)

\* C25: when a populateTable action completes, every value slot in its
\* overlap has the text of its own Dataset, every other value slot keeps
\* the text it had (so an earlier, larger Dataset is not cleared), and
\* completing an action whose Dataset the previous action already wrote
\* changes no text and reports the same update count.
C25_LastActionDecidesItsOverlap == [][C25_Step]_vars

\* both actions are done; the later one, with the one-Record Dataset,
\* rewrote its overlap and a slot of the earlier two-Record Dataset is left
C25_Witness ==
    /\ pc = "done" /\ pc2 = "done"
    /\ task.data = AsArray(<<RecA, RecB>>)
    /\ task2.data = AsArray(<<RecC>>)
    /\ \E k \in 1..Len(WritesOf(task2)) :
          /\ characters[WritesOf(task2)[k].node] = WritesOf(task2)[k].text
          /\ \E q \in 1..Len(WritesOf(task)) :
                /\ WritesOf(task)[q].node = WritesOf(task2)[k].node
                /\ WritesOf(task)[q].text # WritesOf(task2)[k].text
    /\ \E q \in 1..Len(WritesOf(task)) :
          /\ WritesOf(task)[q].node \notin Covered(task2)
          /\ characters[WritesOf(task)[q].node] = WritesOf(task)[q].text
          /\ WritesOf(task)[q].text # OldText

-----------------------------------------------------------------------------
(* Further properties of the fixed-schema action (specification SpecActions) *)

\* the fixed-schema action got past its early returns and has completed
DummyDone == pc = "done" /\ task.type = "generate-dummy-data" /\ Len(task.allCells) > 0

\* the Records that selection, row count and random draws give, the number
\* of fields taken from the topmost row
RecordsByTopRow ==
    Slice(shuffleArray(dummyData(task.rowCount, ActualColumnCount(task.rows), task.stream),
                       task.stream, 16),
          task.rowCount)

\* C26: the columnCount of the message has no influence: whatever it is,
\* the Records, the texts written and the reported count are those that
\* selection, rowCount and random draws alone give, and a Record has the
\* fields that the number of cells in the topmost row decides.
C26_ColumnCountIsIgnored ==
    DummyDone =>
        /\ LET records == RecordsByTopRow
           IN  /\ task.data = AsArray(records)
               /\ written = WritesOf([data |-> AsArray(records), rows |-> task.rows])
        /\ updatedCount = Len(written)
        /\ LastNotice = Notice("dummy", Len(written))
        /\ \A i \in 1..Len(task.data.items) :
              FieldNames(task.data.items[i]) = FieldsFor(ActualColumnCount(task.rows))

\* a message asking for 12 columns on a table whose topmost row has three
\* cells produced Records of six fields and wrote them
C26_Witness ==
    /\ DummyDone
    /\ task.columnCount = 12
    /\ Len(task.rows[1]) = 3
    /\ Len(task.data.items) = 2
    /\ Len(FieldNames(task.data.items[1])) = 6
    /\ Len(written) > 3

-----------------------------------------------------------------------------
(* Further properties of the schema-inferred generator (specification      *)
(* SpecHeaders)                                                             *)

\* the types of the rules that come after the rule for "date"
TypesAfterDate ==
    {<<"p","r","i","c","e">>, <<"q","u","a","n","t","i","t","y">>, <<"r","a","t","i","n","g">>, <<"i","d">>, <<"a","c","c","e","s","s","L","e","v","e","l">>, <<"d","e","s","c","r","i","p","t","i","o","n">>, <<"c","o","m","m","e","n","t">>,
     <<"d","u","r","a","t","i","o","n">>, <<"s","t","a","r","t","D","a","t","e">>, <<"e","n","d","D","a","t","e">>, <<"d","e","a","d","l","i","n","e">>, <<"b","u","d","g","e","t">>, <<"r","e","v","e","n","u","e">>, <<"p","r","o","f","i","t">>}

Lower(header) == trim(toLowerCase(header))

\* C27: no header gets the type startDate or endDate: a header containing
\* "date" is matched by the rule for "date" or an earlier one, so a column
\* of such a header never shows a date looked up at rowIndex+2 or
\* rowIndex+5; a header containing "time span" is not a duration; and a
\* header containing "price" or "cost" is never of a generic type, so the
\* generic currency branch is not entered through these two words.
C27_StartAndEndDateUnreachable ==
    HeadersDone =>
        \A c \in 1..Len(task.headers) :
            LET header == task.headers[c]
                type == task.headerTypes[c]
            IN  /\ type \notin {<<"s","t","a","r","t","D","a","t","e">>, <<"e","n","d","D","a","t","e">>}
                /\ Includes(Lower(header), <<"d","a","t","e">>) =>
                      /\ type \notin TypesAfterDate /\ ~IsGeneric(type)
                      /\ type = <<"d","a","t","e">> =>
                            \A r \in 0..(task.rowCount - 1) :
                                Value(r, c) = At(ShuffledHeaderPool("dates", task.stream), r)
                /\ Includes(Lower(header), <<"t","i","m","e"," ","s","p","a","n">>) =>
                      type # <<"d","u","r","a","t","i","o","n">> /\ type \notin TypesAfterDate /\ ~IsGeneric(type)
                /\ (Includes(Lower(header), <<"p","r","i","c","e">>) \/ Includes(Lower(header), <<"c","o","s","t">>)) =>
                      ~IsGeneric(type)

\* "Start Date" and "End Date" are both dates and show the same date in a
\* row; in other runs "Time Span" is a date, "Total Cost" is a price and
\* "Payment" is generic and shows an amount of money
C27_Witness ==
    /\ HeadersDone
    /\ task.rowCount >= 2
    /\ \/ /\ task.headers = << <<"S","t","a","r","t"," ","D","a","t","e">>, <<"E","n","d"," ","D","a","t","e">>, <<"D","e","a","d","l","i","n","e">> >>
          /\ task.headerTypes[1] = <<"d","a","t","e">> /\ task.headerTypes[2] = <<"d","a","t","e">>
          /\ Value(1, 1) = Value(1, 2)
       \/ task.headers = << <<"T","i","m","e"," ","S","p","a","n">> >> /\ task.headerTypes[1] = <<"d","a","t","e">>
       \/ task.headers = << <<"T","o","t","a","l"," ","C","o","s","t">> >> /\ task.headerTypes[1] = <<"p","r","i","c","e">>
       \/ /\ task.headers = << <<"P","a","y","m","e","n","t">> >> /\ IsGeneric(task.headerTypes[1])
          /\ StartsWith(Value(0, 1), <<"$">>)

\* the field names that reach the topmost row of the table
TopRowHeader == FieldsFor(ActualColumnCount(task.rows))

\* C29: in the fixed-schema action with rowCount >= 1 the cells of the
\* topmost row that have a value slot show the field names, in order;
\* with rowCount = 0 the Dataset is empty, no text node is written, not
\* even the header, and the count reported is 0.
C29_HeaderUnlessZeroRows ==
    DummyDone =>
        /\ task.rowCount >= 1 =>
              \A j \in 1..Min(Len(task.rows[1]), Len(TopRowHeader)) :
                  Slot(task.rows[1][j]) # NULL =>
                      characters[Slot(task.rows[1][j])] = TopRowHeader[j]
        /\ task.rowCount = 0 =>
              /\ task.data.items = <<>>
              /\ written = <<>>
              /\ Untouched
              /\ updatedCount = 0
              /\ notified = <<Notice("dummy", 0)>>

\* with rowCount 0 a table of cells with value slots stayed as it was, and
\* with rowCount 1 the first cell of the topmost row shows "Name"
C29_Witness ==
    /\ DummyDone
    /\ Len(task.rows) >= 2
    /\ Slot(task.rows[1][1]) # NULL
    /\ \/ task.rowCount = 0 /\ Untouched /\ notified = <<Notice("dummy", 0)>>
       \/ task.rowCount = 1 /\ characters[Slot(task.rows[1][1])] = <<"N","a","m","e">>

\* the part of a Name before its first space, and the part after it
FirstOf(name) == SubSeq(name, 1, (CHOOSE k \in 1..Len(name) : name[k] = " " /\ \A q \in 1..(k - 1) : name[q] # " ") - 1)

LastOf(name) == SubSeq(name, Len(FirstOf(name)) + 2, Len(name))

AtCompany == <<"@","c","o","m","p","a","n","y",".","c","o","m">>

\* the types whose values come from a pool or a formula by the row index
\* alone, without a random number or the date of the day
ByRowIndex(type) ==
    /\ type \notin {<<"z","i","p","C","o","d","e">>, <<"b","u","d","g","e","t">>, <<"r","e","v","e","n","u","e">>, <<"p","r","o","f","i","t">>, <<"d","e","a","d","l","i","n","e">>}
    /\ IsGeneric(type) => ~PatternHeader(SubSeq(type, 9, Len(type)))

\* C30: in a fixed-schema Record the Email is first.last or the first
\* letter of first followed by last, lower-cased, of the Record's own
\* Name, followed by @company.com; in the schema-inferred generator the
\* email value of a row is first.last@company.com, lower-cased, of the
\* fullName value of that row, and two columns of the same type that
\* draws no random number show the same value in every row.
C30_EmailMatchesTheNameOfItsRow ==
    /\ DummyDone =>
          \A i \in 1..Len(task.data.items) :
              LET name == FieldValue(task.data.items[i], <<"N","a","m","e">>).s
                  first == toLowerCase(FirstOf(name))
                  last == toLowerCase(LastOf(name))
              IN  FieldValue(task.data.items[i], <<"E","m","a","i","l">>).s
                      \in {first \o <<".">> \o last \o AtCompany, <<first[1]>> \o last \o AtCompany}
    /\ CustomDone =>
          \A r \in 1..task.rowCount : \A c, d \in 1..Len(task.headers) :
              LET typeC == getDataTypeForHeader(task.headers[c])
                  typeD == getDataTypeForHeader(task.headers[d])
                  name == task.dataRows[r + 1][c].s
              IN  /\ (typeC = <<"f","u","l","l","N","a","m","e">> /\ typeD = <<"e","m","a","i","l">>) =>
                        task.dataRows[r + 1][d].s =
                            toLowerCase(FirstOf(name)) \o <<".">> \o toLowerCase(LastOf(name)) \o AtCompany
                  /\ (typeC = typeD /\ ByRowIndex(typeC)) =>
                        task.dataRows[r + 1][d] = task.dataRows[r + 1][c]

\* a schema-inferred table with a Name column and two email columns was
\* written for two rows, the emails following the Name
C30_Witness ==
    /\ CustomDone
    /\ task.rowCount = 2
    /\ task.headers = << <<"N","a","m","e">>, <<"E","m","a","i","l"," ","A","d","d","r","e","s","s">>, <<"M","a","i","l","i","n","g"," ","A","d","d","r","e","s","s">> >>
    /\ task.dataRows[3][2].s =
          toLowerCase(FirstOf(task.dataRows[3][1].s)) \o <<".">> \o toLowerCase(LastOf(task.dataRows[3][1].s)) \o AtCompany
    /\ task.dataRows[3][3] = task.dataRows[3][2]
    /\ task.dataRows[2][2] # task.dataRows[3][2]

-----------------------------------------------------------------------------
(* Further properties of the fixed-schema generator (specification SpecFixed) *)

NameOf(rec) == FieldValue(rec, <<"N","a","m","e">>).s

\* C28: for a row count of at most 30 the Names of the Records built, and
\* so of the Records used, are pairwise distinct, each of the 30 first names
\* opening the Name of exactly one of the first 30 Records; for a row count
\* above 30 the Records i and i+30 have the same Name.
C28_NamesDistinctUpToThirty ==
    Generated =>
        /\ task.rowCount <= 30 =>
              /\ \A i, k \in 1..Len(task.dummyData) :
                    i # k => NameOf(task.dummyData[i]) # NameOf(task.dummyData[k])
              /\ \A i, k \in 1..Len(task.data.items) :
                    i # k => NameOf(task.data.items[i]) # NameOf(task.data.items[k])
        /\ \A f \in 1..Len(firstNames) :
              Cardinality({i \in 1..30 :
                              StartsWith(NameOf(task.dummyData[i]), firstNames[f] \o <<" ">>)}) = 1
        /\ \A i \in 1..Len(task.dummyData) :
              i + 30 <= Len(task.dummyData) =>
                  NameOf(task.dummyData[i]) = NameOf(task.dummyData[i + 30])

\* 31 Records were built: the first 30 have 30 different Names and the
\* last has the Name of the first
C28_Witness ==
    /\ Generated
    /\ task.rowCount = 31 /\ Len(task.dummyData) = 31
    /\ Cardinality({NameOf(task.dummyData[i]) : i \in 1..30}) = 30
    /\ NameOf(task.dummyData[1]) = NameOf(task.dummyData[31])

=============================================================================
